---- MODULE Spec2Model ----
(***************************************************************************)
(* Model of the diagram service: the Diagram aggregate, its entities and   *)
(* value objects, the specification builder (DiagramGenerationService),    *)
(* the application service entry points and the in-memory repository.      *)
(*                                                                         *)
(* A Python str is a sequence of one-character strings, so that strip()    *)
(* and lower() are computed and not assumed.  A dict is a record whose     *)
(* field is Missing when the key is absent.                                *)
(***************************************************************************)
EXTENDS Integers, Sequences, FiniteSets, TLC

VARIABLES diagram, last, calls, request, pc, res, repository, nextId,
          history, reply, pool, environ, files, utcnow, global_agent, sessions

\* the clock and the chat front end of the process
frontVars == <<utcnow, global_agent, sessions>>
\* the state of the process around the diagram service objects
processVars == <<pool, environ, files, frontVars>>

vars == <<diagram, last, calls, request, pc, res, repository, nextId,
         history, reply, pool, environ, files, utcnow, global_agent, sessions>>

(***************************************************************************)
(* Bounds of the model.                                                    *)
(***************************************************************************)
MaxNodes == 2
MaxConns == 2
MaxCalls == 4
MaxDiagrams == 2
MaxRequests == 2

(***************************************************************************)
(* Python values.                                                          *)
(***************************************************************************)
None == <<"<None>">>
Missing == <<"<Missing>">>

Whitespace == {" "}

LowerChar(c) ==
    CASE c = "A" -> "a"
      [] c = "B" -> "b"
      [] c = "E" -> "e"
      [] c = "X" -> "x"
      [] c = "C" -> "c"
      [] c = "F" -> "f"
      [] c = "I" -> "i"
      [] c = "P" -> "p"
      [] c = "S" -> "s"
      [] c = "T" -> "t"
      [] OTHER -> c

lower(s) == [i \in 1..Len(s) |-> LowerChar(s[i])]

RECURSIVE lstrip(_)
lstrip(s) ==
    IF s # <<>> /\ Head(s) \in Whitespace THEN lstrip(Tail(s)) ELSE s

RECURSIVE rstrip(_)
rstrip(s) ==
    IF s # <<>> /\ s[Len(s)] \in Whitespace
    THEN rstrip(SubSeq(s, 1, Len(s) - 1))
    ELSE s

strip(s) == rstrip(lstrip(s))

\* `not v or not v.strip()`
Blank(v) == v = <<>> \/ strip(v) = <<>>

SeqsUpTo(S, n) == UNION {[1..k -> S] : k \in 0..n}

Range(s) == {s[i] : i \in 1..Len(s)}

(***************************************************************************)
(* Value objects and entities.  A constructor returns [ok, v]: ok is FALSE *)
(* when pydantic raises ValidationError (a ValueError).                    *)
(***************************************************************************)
LabelMaxLength == 200
NameMaxLength == 100

Invalid == [ok |-> FALSE, v |-> None]
Valid(v) == [ok |-> TRUE, v |-> v]

\* NodeType.validate_node_type
validate_node_type(v) ==
    IF Blank(v) THEN Invalid ELSE Valid(lower(strip(v)))

\* DiagramNode.validate_label, after the Field(min_length, max_length) check
validate_node_label(v) ==
    IF Len(v) < 1 \/ Len(v) > LabelMaxLength THEN Invalid
    ELSE IF Blank(v) THEN Invalid
    ELSE Valid(strip(v))

\* DiagramNode(id=, type=, label=, cluster=) with type an already built NodeType
DiagramNode(id, type, label, cluster) ==
    LET l == validate_node_label(label) IN
    IF l.ok
    THEN Valid([id |-> id, type |-> type, label |-> l.v, cluster |-> cluster])
    ELSE Invalid

\* DiagramConnection.validate_node_ids
validate_node_ids(v) ==
    IF Blank(v) THEN Invalid ELSE Valid(strip(v))

\* DiagramConnection.validate_label
validate_connection_label(v) ==
    IF v = None THEN None
    ELSE IF strip(v) = <<>> THEN None
    ELSE strip(v)

DiagramConnection(source, target, label) ==
    LET s == validate_node_ids(source)
        t == validate_node_ids(target)
    IN  IF s.ok /\ t.ok
        THEN Valid([source |-> s.v, target |-> t.v,
                    label |-> validate_connection_label(label)])
        ELSE Invalid

\* Diagram.validate_name, after the Field(min_length, max_length) check
validate_name(v) ==
    IF Len(v) < 1 \/ Len(v) > NameMaxLength THEN Invalid
    ELSE IF Blank(v) THEN Invalid
    ELSE Valid(strip(v))

(***************************************************************************)
(* The Diagram aggregate.  A mutator returns [raised, d]: the diagram is   *)
(* the argument itself when the call raises ValueError.                    *)
(***************************************************************************)
NodeIds(d) == {d.nodes[i].id : i \in 1..Len(d.nodes)}

add_node_unchecked(d, node) ==
    [raised |-> FALSE, d |-> [d EXCEPT !.nodes = Append(@, node)]]

add_node(d, node) ==
    IF \E i \in 1..Len(d.nodes) : d.nodes[i].id = node.id
    THEN [raised |-> TRUE, d |-> d]
    ELSE [raised |-> FALSE, d |-> [d EXCEPT !.nodes = Append(@, node)]]

add_connection_no_target_check(d, connection) ==
    LET source_exists == \E i \in 1..Len(d.nodes) : d.nodes[i].id = connection.source
    IN  IF ~source_exists THEN [raised |-> TRUE, d |-> d]
        ELSE IF \E i \in 1..Len(d.connections) :
                    /\ d.connections[i].source = connection.source
                    /\ d.connections[i].target = connection.target
        THEN [raised |-> TRUE, d |-> d]
        ELSE [raised |-> FALSE,
              d |-> [d EXCEPT !.connections = Append(@, connection)]]

add_connection_duplicate_by_label(d, connection) ==
    LET source_exists == \E i \in 1..Len(d.nodes) : d.nodes[i].id = connection.source
        target_exists == \E i \in 1..Len(d.nodes) : d.nodes[i].id = connection.target
    IN  IF ~source_exists THEN [raised |-> TRUE, d |-> d]
        ELSE IF ~target_exists THEN [raised |-> TRUE, d |-> d]
        ELSE IF \E i \in 1..Len(d.connections) : d.connections[i] = connection
        THEN [raised |-> TRUE, d |-> d]
        ELSE [raised |-> FALSE,
              d |-> [d EXCEPT !.connections = Append(@, connection)]]

add_connection(d, connection) ==
    LET source_exists == \E i \in 1..Len(d.nodes) : d.nodes[i].id = connection.source
        target_exists == \E i \in 1..Len(d.nodes) : d.nodes[i].id = connection.target
    IN  IF ~source_exists THEN [raised |-> TRUE, d |-> d]
        ELSE IF ~target_exists THEN [raised |-> TRUE, d |-> d]
        ELSE IF \E i \in 1..Len(d.connections) :
                    /\ d.connections[i].source = connection.source
                    /\ d.connections[i].target = connection.target
        THEN [raised |-> TRUE, d |-> d]
        ELSE [raised |-> FALSE,
              d |-> [d EXCEPT !.connections = Append(@, connection)]]

\* The loop of Diagram.is_valid over connections[i..]
RECURSIVE connections_reference_nodes(_, _, _)
connections_reference_nodes(conns, node_ids, i) ==
    IF i > Len(conns) THEN TRUE
    ELSE IF conns[i].source \notin node_ids \/ conns[i].target \notin node_ids
    THEN FALSE
    ELSE connections_reference_nodes(conns, node_ids, i + 1)

is_valid_source_only(d) ==
    IF d.nodes = <<>> THEN FALSE
    ELSE \A i \in 1..Len(d.connections) : d.connections[i].source \in NodeIds(d)

is_valid(d) ==
    IF d.nodes = <<>> THEN FALSE
    ELSE connections_reference_nodes(d.connections, NodeIds(d), 1)

(***************************************************************************)
(* Raw input: the dicts of a specification, as they arrive from a request  *)
(* body or from the JSON of a model reply.                                 *)
(***************************************************************************)
NodeInputs ==
    { [id |-> <<"a">>,      type |-> <<"e">>,      label |-> <<"x">>,      cluster |-> Missing],
      [id |-> <<"b">>,      type |-> <<" ", "E">>, label |-> <<"x", " ">>, cluster |-> <<"c">>],
      [id |-> <<" ", "a">>, type |-> <<"e">>,      label |-> <<"x">>,      cluster |-> Missing],
      [id |-> <<"a">>,      type |-> <<"e">>,      label |-> <<" ">>,      cluster |-> Missing],
      [id |-> Missing,      type |-> <<"e">>,      label |-> <<"x">>,      cluster |-> Missing],
      [id |-> <<"b">>,      type |-> <<>>,         label |-> <<"x">>,      cluster |-> Missing] }

ConnectionInputs ==
    { [source |-> <<"a">>,      target |-> <<"b">>, label |-> Missing],
      [source |-> <<"a">>,      target |-> <<"b">>, label |-> <<"y", " ">>],
      [source |-> <<" ", "a">>, target |-> <<"b">>, label |-> <<" ">>],
      [source |-> <<"b">>,      target |-> <<"z">>, label |-> Missing],
      [source |-> Missing,      target |-> <<"a">>, label |-> Missing],
      [source |-> <<"b">>,      target |-> <<"a">>, label |-> None] }

NameInputs == { <<"X">>, <<" ">> }

\* dict.get(key): None when the key is absent
get(v) == IF v = Missing THEN None ELSE v

EmptyDiagram == [id |-> 0, name |-> <<>>, nodes |-> <<>>, connections |-> <<>>]

Raise(kind) == [status |-> kind, diagram |-> EmptyDiagram]
Return(d) == [status |-> "ok", diagram |-> d]

(***************************************************************************)
(* DiagramGenerationService.                                               *)
(***************************************************************************)
\* `for node_data in nodes:` of create_diagram_from_specification, from nodes[i]
RECURSIVE add_nodes(_, _, _)
add_nodes(d, nodes, i) ==
    IF i > Len(nodes) THEN Return(d)
    ELSE LET node_data == nodes[i] IN
         IF node_data.id = Missing THEN Raise("KeyError")
         ELSE IF node_data.type = Missing THEN Raise("KeyError")
         ELSE LET type == validate_node_type(node_data.type) IN
              IF ~type.ok THEN Raise("ValueError")
              ELSE IF node_data.label = Missing THEN Raise("KeyError")
              ELSE LET node == DiagramNode(node_data.id, type.v, node_data.label,
                                           get(node_data.cluster)) IN
                   IF ~node.ok THEN Raise("ValueError")
                   ELSE LET r == add_node(d, node.v) IN
                        IF r.raised THEN Raise("ValueError")
                        ELSE add_nodes(r.d, nodes, i + 1)

\* `for connection_data in connections:`, from connections[i]
RECURSIVE add_connections(_, _, _)
add_connections(d, connections, i) ==
    IF i > Len(connections) THEN Return(d)
    ELSE LET connection_data == connections[i] IN
         IF connection_data.source = Missing THEN Raise("KeyError")
         ELSE IF connection_data.target = Missing THEN Raise("KeyError")
         ELSE LET connection == DiagramConnection(connection_data.source,
                                                  connection_data.target,
                                                  get(connection_data.label)) IN
              IF ~connection.ok THEN Raise("ValueError")
              ELSE LET r == add_connection(d, connection.v) IN
                   IF r.raised THEN Raise("ValueError")
                   ELSE add_connections(r.d, connections, i + 1)

create_diagram_connections_first(diagram_id, name, nodes, connections) ==
    LET n == validate_name(name) IN
    IF ~n.ok THEN Raise("ValueError")
    ELSE LET d0 == [id |-> diagram_id, name |-> n.v,
                    nodes |-> <<>>, connections |-> <<>>]
             withConnections == add_connections(d0, connections, 1)
         IN  IF withConnections.status # "ok" THEN withConnections
             ELSE add_nodes(withConnections.diagram, nodes, 1)

\* diagram_id is the value DiagramId.generate() returned
create_diagram_from_specification(diagram_id, name, nodes, connections) ==
    LET n == validate_name(name) IN
    IF ~n.ok THEN Raise("ValueError")
    ELSE LET d0 == [id |-> diagram_id, name |-> n.v,
                    nodes |-> <<>>, connections |-> <<>>]
             withNodes == add_nodes(d0, nodes, 1)
         IN  IF withNodes.status # "ok" THEN withNodes
             ELSE add_connections(withNodes.diagram, connections, 1)

\* `node_ids = [node["id"] for node in nodes]`
HasAllIds(nodes) == \A i \in 1..Len(nodes) : nodes[i].id # Missing

\* `len(node_ids) != len(set(node_ids))`
HasDuplicates(node_ids) ==
    Len(node_ids) # Cardinality(Range(node_ids))

\* the loop over connections of validate_diagram_specification, from [i]
RECURSIVE validate_connections(_, _, _)
validate_connections(connections, node_ids, i) ==
    IF i > Len(connections) THEN "True"
    ELSE LET connection == connections[i] IN
         IF connection.source = Missing THEN "KeyError"
         ELSE IF connection.source \notin node_ids THEN "False"
         ELSE IF connection.target = Missing THEN "KeyError"
         ELSE IF connection.target \notin node_ids THEN "False"
         ELSE validate_connections(connections, node_ids, i + 1)

\* "True", "False", or "KeyError" when a dict lacks a key that is read
validate_diagram_specification(nodes, connections) ==
    IF nodes = <<>> THEN "False"
    ELSE IF ~HasAllIds(nodes) THEN "KeyError"
    ELSE LET node_ids == [i \in 1..Len(nodes) |-> nodes[i].id] IN
         IF HasDuplicates(node_ids) THEN "False"
         ELSE validate_connections(connections, Range(node_ids), 1)

(***************************************************************************)
(* InMemoryDiagramRepository: a dict from str(diagram.id) to the diagram.  *)
(* A dict keeps its keys in insertion order and a key whose value is       *)
(* replaced keeps its place, so the dict is the sequence of its items.     *)
(***************************************************************************)
EmptyRepository == <<>>

Keys(repo) == {repo[i].key : i \in 1..Len(repo)}

\* a save that stores nothing
save_discarded(repo, d) == repo

\* a save that keeps the diagram stored first under an id
save_insert_only(repo, d) ==
    IF d.id \in Keys(repo) THEN repo
    ELSE Append(repo, [key |-> d.id, value |-> d])

\* self._diagrams[str(diagram.id)] = diagram
save(repo, d) ==
    IF d.id \in Keys(repo)
    THEN [i \in 1..Len(repo) |->
            IF repo[i].key = d.id THEN [key |-> d.id, value |-> d] ELSE repo[i]]
    ELSE Append(repo, [key |-> d.id, value |-> d])

\* self._diagrams.get(str(diagram_id)): found is FALSE for the reply None
find_by_id(repo, diagram_id) ==
    IF diagram_id \in Keys(repo)
    THEN [found |-> TRUE,
          diagram |-> repo[CHOOSE i \in 1..Len(repo) : repo[i].key = diagram_id].value]
    ELSE [found |-> FALSE, diagram |-> EmptyDiagram]

\* list(self._diagrams.values())
find_all(repo) == [i \in 1..Len(repo) |-> repo[i].value]

\* self._diagrams.pop(str(diagram_id), None)
delete(repo, diagram_id) == SelectSeq(repo, LAMBDA item : item.key # diagram_id)

(***************************************************************************)
(* Application layer.                                                      *)
(***************************************************************************)
\* CreateDiagramCommand(name=, nodes=, connections=): validate_name, validate_nodes
validate_command_name(v) ==
    IF Len(v) < 1 \/ Len(v) > NameMaxLength THEN Invalid
    ELSE IF Blank(v) THEN Invalid
    ELSE Valid(strip(v))

CreateDiagramCommand(name, nodes, connections) ==
    LET n == validate_command_name(name) IN
    IF ~n.ok THEN Invalid
    ELSE IF nodes = <<>> THEN Invalid
    ELSE Valid([name |-> n.v, nodes |-> nodes, connections |-> connections])

\* DiagramApplicationService.create_diagram up to the save; used tells whether
\* DiagramId.generate() was reached
create_diagram(diagram_id, command) ==
    LET v == validate_diagram_specification(command.nodes, command.connections) IN
    IF v = "KeyError" THEN [status |-> "KeyError", diagram |-> EmptyDiagram, used |-> FALSE]
    ELSE IF v = "False" THEN [status |-> "ValueError", diagram |-> EmptyDiagram, used |-> FALSE]
    ELSE LET r == create_diagram_from_specification(
                      diagram_id, command.name, command.nodes, command.connections)
         IN  [status |-> r.status, diagram |-> r.diagram, used |-> TRUE]

\* DiagramRequest(**diagram_data) of the model-reply path: the field types only
DiagramRequest(diagram_data) ==
    IF diagram_data.name = Missing THEN Invalid ELSE Valid(diagram_data)

\* the nodes=[...] and connections=[...] of DiagramDetailsResponse
NodeDetails(node) ==
    [id |-> node.id, type |-> node.type, label |-> node.label, cluster |-> node.cluster]

ConnectionDetailsWithoutLabel(conn) ==
    [source |-> conn.source, target |-> conn.target, label |-> Missing]

ConnectionDetails(conn) ==
    [source |-> conn.source, target |-> conn.target, label |-> conn.label]

DiagramDetails(d) ==
    [name |-> d.name,
     nodes |-> [i \in 1..Len(d.nodes) |-> NodeDetails(d.nodes[i])],
     connections |-> [i \in 1..Len(d.connections) |-> ConnectionDetails(d.connections[i])]]

NoDetails == [name |-> <<>>, nodes |-> <<>>, connections |-> <<>>]

(***************************************************************************)
(* Entities that the constructors accept, built from the raw inputs.       *)
(***************************************************************************)
NodeEntities ==
    { DiagramNode(nd.id, validate_node_type(nd.type).v, nd.label, get(nd.cluster)).v :
        nd \in { x \in NodeInputs :
                   /\ x.id # Missing
                   /\ validate_node_type(x.type).ok
                   /\ validate_node_label(x.label).ok } }

ConnectionEntities ==
    { DiagramConnection(cd.source, cd.target, get(cd.label)).v :
        cd \in { x \in ConnectionInputs :
                   /\ x.source # Missing
                   /\ x.target # Missing
                   /\ DiagramConnection(x.source, x.target, get(x.label)).ok } }

NoNode == [id |-> <<>>, type |-> <<>>, label |-> <<>>, cluster |-> None]
NoConnection == [source |-> <<>>, target |-> <<>>, label |-> None]

NoCall ==
    [op |-> "none", raised |-> FALSE, value |-> FALSE, before |-> EmptyDiagram,
     node |-> NoNode, connection |-> NoConnection]

\* the reply of the call made last, before any call
NoReply == [op |-> "none"]

\* no DiagramAgentPool made
NoPool == [pool_size |-> 0, semaphore |-> 0, position |-> <<>>]

\* the clock at the start, and chainlit_app before any session: agent = None
InitFront ==
    /\ utcnow = 0
    /\ global_agent = None
    /\ sessions = <<>>

\* the process before main.py has set up its front ends
InitProcess ==
    /\ pool = NoPool
    /\ environ = [IMAGES_DIR |-> None]
    /\ files = {}
    /\ InitFront

NoRequest == [name |-> <<>>, nodes |-> <<>>, connections |-> <<>>]

NoResults ==
    [valid |-> "NotRun", user |-> "NotRun", userDiagram |-> EmptyDiagram,
     reply |-> "NotRun", built |-> "NotRun", details |-> NoDetails,
     rebuilt |-> "NotRun", rebuiltDiagram |-> EmptyDiagram]

Requests ==
    { [name |-> n, nodes |-> ns, connections |-> cs] :
        n \in NameInputs,
        ns \in SeqsUpTo(NodeInputs, MaxNodes),
        cs \in SeqsUpTo(ConnectionInputs, MaxConns) }

(***************************************************************************)
(* Calls on one Diagram aggregate.                                         *)
(***************************************************************************)
AddNode ==
    /\ pc = "aggregate"
    /\ calls < MaxCalls
    /\ \E node \in NodeEntities :
         LET r == add_node(diagram, node) IN
         /\ diagram' = r.d
         /\ last' = [NoCall EXCEPT !.op = "add_node", !.raised = r.raised,
                                   !.before = diagram, !.node = node]
    /\ calls' = calls + 1
    /\ UNCHANGED <<request, pc, res, repository, nextId>>
    /\ UNCHANGED <<history, reply>>
    /\ UNCHANGED processVars

AddConnection ==
    /\ pc = "aggregate"
    /\ calls < MaxCalls
    /\ \E connection \in ConnectionEntities :
         LET r == add_connection(diagram, connection) IN
         /\ diagram' = r.d
         /\ last' = [NoCall EXCEPT !.op = "add_connection", !.raised = r.raised,
                                   !.before = diagram, !.connection = connection]
    /\ calls' = calls + 1
    /\ UNCHANGED <<request, pc, res, repository, nextId>>
    /\ UNCHANGED <<history, reply>>
    /\ UNCHANGED processVars

IsValid ==
    /\ pc = "aggregate"
    /\ last' = [NoCall EXCEPT !.op = "is_valid", !.value = is_valid(diagram),
                              !.before = diagram]
    /\ UNCHANGED <<diagram, calls, request, pc, res, repository, nextId>>
    /\ UNCHANGED <<history, reply>>
    /\ UNCHANGED processVars

(***************************************************************************)
(* One raw specification taken through the entry points in turn.           *)
(***************************************************************************)
\* DiagramGenerationService.validate_diagram_specification(nodes, connections)
ValidateDiagramSpecification ==
    /\ pc = "start"
    /\ res' = [res EXCEPT !.valid =
                 validate_diagram_specification(request.nodes, request.connections)]
    /\ pc' = "validated"
    /\ UNCHANGED <<diagram, last, calls, request, repository, nextId>>
    /\ UNCHANGED <<history, reply>>
    /\ UNCHANGED processVars

\* the user-submitted path: CreateDiagramCommand, then
\* DiagramApplicationService.create_diagram with its repository save
CreateDiagram ==
    /\ pc = "validated"
    /\ LET command == CreateDiagramCommand(request.name, request.nodes, request.connections)
           r == create_diagram(nextId, command.v)
       IN  IF ~command.ok
           THEN /\ res' = [res EXCEPT !.user = "ValueError"]
                /\ UNCHANGED <<repository, nextId>>
           ELSE /\ res' = [res EXCEPT !.user = r.status, !.userDiagram = r.diagram]
                /\ nextId' = IF r.used THEN nextId + 1 ELSE nextId
                /\ repository' = IF r.status = "ok"
                                 THEN save(repository, r.diagram)
                                 ELSE repository
    /\ pc' = "submitted"
    /\ UNCHANGED <<diagram, last, calls, request>>
    /\ UNCHANGED <<history, reply>>
    /\ UNCHANGED processVars

\* the model-reply path: GeminiClient.generate_diagram_specification on a reply
\* whose JSON is the same raw specification
GenerateDiagramSpecification ==
    /\ pc = "submitted"
    /\ res' = [res EXCEPT !.reply =
                 IF DiagramRequest(request).ok THEN "ok" ELSE "ValueError"]
    /\ pc' = "parsed"
    /\ UNCHANGED <<diagram, last, calls, request, repository, nextId>>
    /\ UNCHANGED <<history, reply>>
    /\ UNCHANGED processVars

\* DiagramGenerationService.create_diagram_from_specification called directly
CreateDiagramFromSpecification ==
    /\ pc = "parsed"
    /\ LET r == create_diagram_from_specification(
                    nextId, request.name, request.nodes, request.connections)
       IN  /\ diagram' = r.diagram
           /\ res' = [res EXCEPT !.built = r.status]
    /\ nextId' = nextId + 1
    /\ pc' = "built"
    /\ UNCHANGED <<last, calls, request, repository>>
    /\ UNCHANGED <<history, reply>>
    /\ UNCHANGED processVars

\* InMemoryDiagramRepository.save of the diagram just built
Save ==
    /\ pc = "built"
    /\ res.built = "ok"
    /\ repository' = save(repository, diagram)
    /\ pc' = "saved"
    /\ UNCHANGED <<diagram, last, calls, request, res, nextId>>
    /\ UNCHANGED <<history, reply>>
    /\ UNCHANGED processVars

\* DiagramApplicationService.get_diagram_by_id: the stored diagram written out
GetDiagramById ==
    /\ pc = "saved"
    /\ find_by_id(repository, diagram.id).found
    /\ res' = [res EXCEPT !.details =
                 DiagramDetails(find_by_id(repository, diagram.id).diagram)]
    /\ pc' = "serialised"
    /\ UNCHANGED <<diagram, last, calls, request, repository, nextId>>
    /\ UNCHANGED <<history, reply>>
    /\ UNCHANGED processVars

\* the written-out nodes and connections passed back to the builder
Rebuild ==
    /\ pc = "serialised"
    /\ LET r == create_diagram_from_specification(
                    nextId, res.details.name, res.details.nodes, res.details.connections)
       IN  res' = [res EXCEPT !.rebuilt = r.status, !.rebuiltDiagram = r.diagram]
    /\ nextId' = nextId + 1
    /\ pc' = "done"
    /\ UNCHANGED <<diagram, last, calls, request, repository>>
    /\ UNCHANGED <<history, reply>>
    /\ UNCHANGED processVars

(***************************************************************************)
(* Specifications.                                                         *)
(***************************************************************************)
\* an empty Diagram, then add_node / add_connection / is_valid calls
Init ==
    /\ diagram = [id |-> 1, name |-> <<"X">>, nodes |-> <<>>, connections |-> <<>>]
    /\ last = NoCall
    /\ calls = 0
    /\ request = NoRequest
    /\ pc = "aggregate"
    /\ res = NoResults
    /\ repository = EmptyRepository
    /\ history = <<>>
    /\ reply = NoReply
    /\ nextId = 2
    /\ InitProcess

Next == AddNode \/ AddConnection \/ IsValid

Spec == Init /\ [][Next]_vars

\* any Diagram the constructor Diagram(id=, name=, nodes=, connections=) accepts
InitAnyDiagram ==
    /\ diagram \in { [id |-> 1, name |-> <<"X">>, nodes |-> ns, connections |-> cs] :
                       ns \in SeqsUpTo(NodeEntities, MaxNodes),
                       cs \in SeqsUpTo(ConnectionEntities, MaxConns) }
    /\ last = NoCall
    /\ calls = 0
    /\ request = NoRequest
    /\ pc = "aggregate"
    /\ res = NoResults
    /\ repository = EmptyRepository
    /\ history = <<>>
    /\ reply = NoReply
    /\ nextId = 2
    /\ InitProcess

NextAnyDiagram == IsValid

SpecAnyDiagram == InitAnyDiagram /\ [][NextAnyDiagram]_vars

\* any raw specification within the bounds
InitBuilder ==
    /\ request \in Requests
    /\ diagram = EmptyDiagram
    /\ last = NoCall
    /\ calls = 0
    /\ pc = "start"
    /\ res = NoResults
    /\ repository = EmptyRepository
    /\ history = <<>>
    /\ reply = NoReply
    /\ nextId = 1
    /\ InitProcess

NextBuilder ==
    \/ ValidateDiagramSpecification
    \/ CreateDiagram
    \/ GenerateDiagramSpecification
    \/ CreateDiagramFromSpecification
    \/ Save
    \/ GetDiagramById
    \/ Rebuild

SpecBuilder == InitBuilder /\ [][NextBuilder]_vars

(***************************************************************************)
(* Properties of the Diagram aggregate.                                    *)
(***************************************************************************)
SameEndpoints(c1, c2) == c1.source = c2.source /\ c1.target = c2.target

EndpointsStored(d, c) == c.source \in NodeIds(d) /\ c.target \in NodeIds(d)

\* C1: add_node with the id of a stored node raises and adds nothing, so no
\* two stored nodes ever share an id.
C1_DuplicateNodeIdRejected ==
    /\ (last.op = "add_node" /\ last.node.id \in NodeIds(last.before))
          => (last.raised /\ diagram = last.before)
    /\ \A i, j \in 1..Len(diagram.nodes) :
          i # j => diagram.nodes[i].id # diagram.nodes[j].id

C1_Witness ==
    /\ last.op = "add_node"
    /\ last.node.id \in NodeIds(last.before)
    /\ last.raised
    /\ Len(diagram.nodes) >= 2

\* C2: add_connection raises unless source and target are both ids of stored
\* nodes, so every stored connection has both endpoints among the node ids.
C2_ConnectionEndpointsExist ==
    /\ (last.op = "add_connection" /\ ~EndpointsStored(last.before, last.connection))
          => (last.raised /\ diagram = last.before)
    /\ \A i \in 1..Len(diagram.connections) :
          EndpointsStored(diagram, diagram.connections[i])

C2_Witness ==
    /\ last.op = "add_connection"
    /\ last.connection.source \in NodeIds(last.before)
    /\ last.connection.target \notin NodeIds(last.before)
    /\ last.raised
    /\ Len(diagram.connections) >= 1

\* C3: add_connection raises when a connection with the same (source, target)
\* is stored, whatever the labels, so no two stored connections share both.
C3_DuplicateConnectionRejected ==
    /\ (/\ last.op = "add_connection"
        /\ \E i \in 1..Len(last.before.connections) :
              SameEndpoints(last.before.connections[i], last.connection))
          => (last.raised /\ diagram = last.before)
    /\ \A i, j \in 1..Len(diagram.connections) :
          i # j => ~SameEndpoints(diagram.connections[i], diagram.connections[j])

C3_Witness ==
    /\ last.op = "add_connection"
    /\ last.raised
    /\ \E i \in 1..Len(last.before.connections) :
          /\ SameEndpoints(last.before.connections[i], last.connection)
          /\ last.before.connections[i].label # last.connection.label

\* C4: is_valid() is true exactly when the node list is non-empty and every
\* stored connection has its source and its target among the node ids.
C4_IsValidIff ==
    last.op = "is_valid" =>
        (last.value <=>
            /\ diagram.nodes # <<>>
            /\ \A i \in 1..Len(diagram.connections) :
                  EndpointsStored(diagram, diagram.connections[i]))

C4_Witness ==
    /\ last.op = "is_valid"
    /\ ~last.value
    /\ diagram.nodes # <<>>
    /\ \A i \in 1..Len(diagram.connections) :
          diagram.connections[i].source \in NodeIds(diagram)

(***************************************************************************)
(* Properties of the specification builder.                                *)
(***************************************************************************)
DeclaredIds(nodes) == {nodes[i].id : i \in {k \in 1..Len(nodes) : nodes[k].id # Missing}}

SharedId(nodes) ==
    \E i, j \in 1..Len(nodes) :
        i # j /\ nodes[i].id # Missing /\ nodes[i].id = nodes[j].id

\* non-empty nodes, pairwise distinct ids, connections between declared ids
WellFormed(r) ==
    /\ r.nodes # <<>>
    /\ HasAllIds(r.nodes)
    /\ ~SharedId(r.nodes)
    /\ \A i \in 1..Len(r.connections) :
          /\ r.connections[i].source \in DeclaredIds(r.nodes)
          /\ r.connections[i].target \in DeclaredIds(r.nodes)

\* the name, types and labels that the entity constructors accept
EntityFieldsAccepted(r) ==
    /\ validate_name(r.name).ok
    /\ \A i \in 1..Len(r.nodes) :
          /\ r.nodes[i].type # Missing /\ ~Blank(r.nodes[i].type)
          /\ r.nodes[i].label # Missing /\ ~Blank(r.nodes[i].label)
          /\ Len(r.nodes[i].label) <= LabelMaxLength

\* endpoints that are declared ids also once trimmed, and no repeated pair
TrimmedConnectionsAccepted(r) ==
    /\ \A i \in 1..Len(r.connections) :
          /\ ~Blank(r.connections[i].source)
          /\ ~Blank(r.connections[i].target)
          /\ strip(r.connections[i].source) \in DeclaredIds(r.nodes)
          /\ strip(r.connections[i].target) \in DeclaredIds(r.nodes)
    /\ \A i, j \in 1..Len(r.connections) :
          i # j => ~(/\ strip(r.connections[i].source) = strip(r.connections[j].source)
                     /\ strip(r.connections[i].target) = strip(r.connections[j].target))

\* C5 as stated: every well-formed input (read with a name, types and labels
\* that the constructors accept) is built, without raising, into a Diagram
\* for which is_valid() is true.
C5_WellFormedBuilds ==
    (res.built # "NotRun" /\ WellFormed(request) /\ EntityFieldsAccepted(request))
        => (res.built = "ok" /\ is_valid(diagram))

\* C5 as amended: a well-formed input is built into a valid Diagram when,
\* besides, its name, types and labels are non-blank and within their length
\* limits, every connection endpoint is non-blank and still a declared id once
\* trimmed, and no two connections have the same trimmed (source, target).
C5_WellFormedAcceptedBuilds ==
    (/\ res.built # "NotRun"
     /\ WellFormed(request)
     /\ EntityFieldsAccepted(request)
     /\ TrimmedConnectionsAccepted(request))
        => (res.built = "ok" /\ is_valid(diagram))

C5_Witness ==
    /\ res.built = "ok"
    /\ WellFormed(request)
    /\ EntityFieldsAccepted(request)
    /\ TrimmedConnectionsAccepted(request)
    /\ Len(diagram.nodes) = 2
    /\ Len(diagram.connections) = 2

C7_DanglingConnectionFails ==
    (\E i \in 1..Len(request.connections) :
        /\ request.connections[i].source # Missing
        /\ request.connections[i].target # Missing
        /\ \/ request.connections[i].source \notin DeclaredIds(request.nodes)
           \/ request.connections[i].target \notin DeclaredIds(request.nodes))
    => (res.built # "ok" /\ res.valid # "True")

\* C8: no Diagram is produced from an empty node list on any path that
\* builds one.
C8_EmptyNodeListRejected ==
    request.nodes = <<>> => (res.built # "ok" /\ res.user # "ok")

\* C9: a raw specification is accepted on the user-submitted path exactly
\* when it is accepted on the model-reply path.
C9_SameRulesOnBothPaths ==
    (res.user # "NotRun" /\ res.reply # "NotRun")
        => (res.user = "ok" <=> res.reply = "ok")

\* C10: a Diagram the builder produced, written out as get_diagram_by_id
\* writes it and passed back to the builder, is built again with the same
\* node list and the same connection list.
C10_RoundTrip ==
    res.rebuilt # "NotRun" =>
        /\ res.rebuilt = "ok"
        /\ res.rebuiltDiagram.nodes = diagram.nodes
        /\ res.rebuiltDiagram.connections = diagram.connections

C10_Witness ==
    /\ res.rebuilt = "ok"
    /\ \E i \in 1..Len(diagram.nodes) :
          /\ diagram.nodes[i].type # request.nodes[i].type
          /\ diagram.nodes[i].label # request.nodes[i].label
          /\ diagram.nodes[i].cluster # None
    /\ \E i \in 1..Len(diagram.connections) :
          /\ diagram.connections[i].label # None
          /\ diagram.connections[i].label # request.connections[i].label

(***************************************************************************)
(* InMemoryDiagramRepository under any sequence of calls.                  *)
(***************************************************************************)
\* the diagrams handed to save: an id stands for one DiagramId, and two
\* diagrams of one id differ in their name
StoredDiagrams ==
    { [id |-> i, name |-> n, nodes |-> <<>>, connections |-> <<>>] :
        i \in 1..MaxDiagrams, n \in {<<"X">>, <<"Y">>} }

RepositorySave ==
    /\ pc = "repository"
    /\ Len(history) < MaxCalls
    /\ \E d \in StoredDiagrams :
         /\ repository' = save(repository, d)
         /\ history' = Append(history, [op |-> "save", id |-> d.id, diagram |-> d])
    /\ reply' = [op |-> "save"]
    /\ UNCHANGED <<diagram, last, calls, request, pc, res, nextId>>
    /\ UNCHANGED processVars

RepositoryDelete ==
    /\ pc = "repository"
    /\ Len(history) < MaxCalls
    /\ \E i \in 1..MaxDiagrams :
         /\ repository' = delete(repository, i)
         /\ history' = Append(history,
                              [op |-> "delete", id |-> i, diagram |-> EmptyDiagram])
    /\ reply' = [op |-> "delete"]
    /\ UNCHANGED <<diagram, last, calls, request, pc, res, nextId>>
    /\ UNCHANGED processVars

RepositoryFindById ==
    /\ pc = "repository"
    /\ \E i \in 1..MaxDiagrams :
         LET r == find_by_id(repository, i) IN
         reply' = [op |-> "find_by_id", id |-> i,
                   found |-> r.found, diagram |-> r.diagram]
    /\ UNCHANGED <<diagram, last, calls, request, pc, res, repository, nextId, history>>
    /\ UNCHANGED processVars

RepositoryFindAll ==
    /\ pc = "repository"
    /\ reply' = [op |-> "find_all", diagrams |-> find_all(repository)]
    /\ UNCHANGED <<diagram, last, calls, request, pc, res, repository, nextId, history>>
    /\ UNCHANGED processVars

\* a new InMemoryDiagramRepository
InitRepository ==
    /\ diagram = EmptyDiagram
    /\ last = NoCall
    /\ calls = 0
    /\ request = NoRequest
    /\ pc = "repository"
    /\ res = NoResults
    /\ repository = EmptyRepository
    /\ nextId = 1
    /\ history = <<>>
    /\ reply = NoReply
    /\ InitProcess

NextRepository ==
    \/ RepositorySave
    \/ RepositoryDelete
    \/ RepositoryFindById
    \/ RepositoryFindAll

SpecRepository == InitRepository /\ [][NextRepository]_vars

\* the save or delete made last on an id among the first n calls
RECURSIVE LastOperation(_, _, _)
LastOperation(h, i, n) ==
    IF n = 0 THEN [op |-> "none", id |-> i, diagram |-> EmptyDiagram]
    ELSE IF h[n].id = i THEN h[n]
    ELSE LastOperation(h, i, n - 1)

\* C11: after any sequence of save and delete calls, find_by_id(i) returns
\* the diagram saved last under i when no delete(i) came after that save, and
\* returns absent when i was never saved or its last call was delete(i);
\* find_all never holds two diagrams of one id.
C11_RepositoryHoldsLastSave ==
    /\ reply.op = "find_by_id" =>
          LET l == LastOperation(history, reply.id, Len(history)) IN
          IF l.op = "save"
          THEN reply.found /\ reply.diagram = l.diagram
          ELSE ~reply.found
    /\ reply.op = "find_all" =>
          \A i, j \in 1..Len(reply.diagrams) :
             i # j => reply.diagrams[i].id # reply.diagrams[j].id

C11_Witness ==
    /\ reply.op = "find_by_id"
    /\ reply.found
    /\ Len(history) = 4
    /\ history[1].op = "save" /\ history[1].id = reply.id
    /\ history[2].op = "save" /\ history[2].id = reply.id
    /\ history[2].diagram # history[1].diagram
    /\ history[3].op = "delete" /\ history[3].id = reply.id
    /\ history[4].op = "save" /\ history[4].id = reply.id
    /\ history[4].diagram # history[2].diagram

(***************************************************************************)
(* DiagramApplicationService.generate_diagram_from_description.            *)
(***************************************************************************)
\* Python `sub in s` on str
Contains(sub, s) ==
    \E i \in 0..(Len(s) - Len(sub)) : SubSeq(s, i + 1, i + Len(sub)) = sub

\* the three specifications written out in the method body
Ec2RdsSpecification ==
    [name |-> <<"E", "C", "2", " ", "+", " ", "R", "D", "S", " ", "A", "r", "c", "h", "i", "t", "e", "c", "t", "u", "r", "e">>,
     nodes |-> <<
        [id |-> <<"i", "n", "t", "e", "r", "n", "e", "t">>, type |-> <<"a", "w", "s", "_", "i", "n", "t", "e", "r", "n", "e", "t", "_", "g", "a", "t", "e", "w", "a", "y">>,
         label |-> <<"I", "n", "t", "e", "r", "n", "e", "t", " ", "G", "a", "t", "e", "w", "a", "y">>, cluster |-> Missing],
        [id |-> <<"v", "p", "c">>, type |-> <<"a", "w", "s", "_", "v", "p", "c">>,
         label |-> <<"V", "P", "C">>, cluster |-> Missing],
        [id |-> <<"s", "u", "b", "n", "e", "t">>, type |-> <<"a", "w", "s", "_", "s", "u", "b", "n", "e", "t">>,
         label |-> <<"P", "u", "b", "l", "i", "c", " ", "S", "u", "b", "n", "e", "t">>, cluster |-> Missing],
        [id |-> <<"e", "c", "2">>, type |-> <<"a", "w", "s", "_", "e", "c", "2">>,
         label |-> <<"E", "C", "2", " ", "I", "n", "s", "t", "a", "n", "c", "e">>, cluster |-> Missing],
        [id |-> <<"r", "d", "s">>, type |-> <<"a", "w", "s", "_", "r", "d", "s">>,
         label |-> <<"R", "D", "S", " ", "D", "a", "t", "a", "b", "a", "s", "e">>, cluster |-> Missing],
        [id |-> <<"s", "e", "c", "u", "r", "i", "t", "y", "_", "g", "r", "o", "u", "p">>, type |-> <<"a", "w", "s", "_", "s", "e", "c", "u", "r", "i", "t", "y", "_", "g", "r", "o", "u", "p">>,
         label |-> <<"S", "e", "c", "u", "r", "i", "t", "y", " ", "G", "r", "o", "u", "p">>, cluster |-> Missing] >>,
     connections |-> <<
        [source |-> <<"i", "n", "t", "e", "r", "n", "e", "t">>, target |-> <<"v", "p", "c">>,
         label |-> <<"I", "n", "t", "e", "r", "n", "e", "t", " ", "A", "c", "c", "e", "s", "s">>],
        [source |-> <<"v", "p", "c">>, target |-> <<"s", "u", "b", "n", "e", "t">>,
         label |-> <<"C", "o", "n", "t", "a", "i", "n", "s">>],
        [source |-> <<"s", "u", "b", "n", "e", "t">>, target |-> <<"e", "c", "2">>,
         label |-> <<"H", "o", "s", "t", "s">>],
        [source |-> <<"e", "c", "2">>, target |-> <<"r", "d", "s">>,
         label |-> <<"D", "a", "t", "a", "b", "a", "s", "e", " ", "C", "o", "n", "n", "e", "c", "t", "i", "o", "n">>],
        [source |-> <<"s", "e", "c", "u", "r", "i", "t", "y", "_", "g", "r", "o", "u", "p">>, target |-> <<"e", "c", "2">>,
         label |-> <<"P", "r", "o", "t", "e", "c", "t", "s">>],
        [source |-> <<"s", "e", "c", "u", "r", "i", "t", "y", "_", "g", "r", "o", "u", "p">>, target |-> <<"r", "d", "s">>,
         label |-> <<"P", "r", "o", "t", "e", "c", "t", "s">>] >>]

FastApiSqsSpecification ==
    [name |-> <<"F", "a", "s", "t", "A", "P", "I", " ", "+", " ", "S", "Q", "S", " ", "A", "r", "c", "h", "i", "t", "e", "c", "t", "u", "r", "e">>,
     nodes |-> <<
        [id |-> <<"a", "p", "i", "_", "g", "a", "t", "e", "w", "a", "y">>, type |-> <<"a", "w", "s", "_", "a", "p", "i", "_", "g", "a", "t", "e", "w", "a", "y">>,
         label |-> <<"A", "P", "I", " ", "G", "a", "t", "e", "w", "a", "y">>, cluster |-> Missing],
        [id |-> <<"f", "a", "s", "t", "a", "p", "i">>, type |-> <<"a", "w", "s", "_", "l", "a", "m", "b", "d", "a">>,
         label |-> <<"F", "a", "s", "t", "A", "P", "I", " ", "L", "a", "m", "b", "d", "a">>, cluster |-> Missing],
        [id |-> <<"s", "q", "s">>, type |-> <<"a", "w", "s", "_", "s", "q", "s">>,
         label |-> <<"S", "Q", "S", " ", "Q", "u", "e", "u", "e">>, cluster |-> Missing],
        [id |-> <<"w", "o", "r", "k", "e", "r">>, type |-> <<"a", "w", "s", "_", "l", "a", "m", "b", "d", "a">>,
         label |-> <<"W", "o", "r", "k", "e", "r", " ", "L", "a", "m", "b", "d", "a">>, cluster |-> Missing],
        [id |-> <<"d", "y", "n", "a", "m", "o", "d", "b">>, type |-> <<"a", "w", "s", "_", "d", "y", "n", "a", "m", "o", "d", "b">>,
         label |-> <<"D", "y", "n", "a", "m", "o", "D", "B">>, cluster |-> Missing] >>,
     connections |-> <<
        [source |-> <<"a", "p", "i", "_", "g", "a", "t", "e", "w", "a", "y">>, target |-> <<"f", "a", "s", "t", "a", "p", "i">>,
         label |-> <<"H", "T", "T", "P">>],
        [source |-> <<"f", "a", "s", "t", "a", "p", "i">>, target |-> <<"s", "q", "s">>,
         label |-> <<"S", "e", "n", "d", " ", "M", "e", "s", "s", "a", "g", "e">>],
        [source |-> <<"s", "q", "s">>, target |-> <<"w", "o", "r", "k", "e", "r">>,
         label |-> <<"T", "r", "i", "g", "g", "e", "r">>],
        [source |-> <<"w", "o", "r", "k", "e", "r">>, target |-> <<"d", "y", "n", "a", "m", "o", "d", "b">>,
         label |-> <<"W", "r", "i", "t", "e">>] >>]

DefaultSpecification ==
    [name |-> <<"A", "W", "S", " ", "A", "r", "c", "h", "i", "t", "e", "c", "t", "u", "r", "e">>,
     nodes |-> <<
        [id |-> <<"v", "p", "c">>, type |-> <<"a", "w", "s", "_", "v", "p", "c">>,
         label |-> <<"V", "P", "C">>, cluster |-> Missing],
        [id |-> <<"e", "c", "2">>, type |-> <<"a", "w", "s", "_", "e", "c", "2">>,
         label |-> <<"E", "C", "2", " ", "I", "n", "s", "t", "a", "n", "c", "e">>, cluster |-> Missing],
        [id |-> <<"r", "d", "s">>, type |-> <<"a", "w", "s", "_", "r", "d", "s">>,
         label |-> <<"R", "D", "S", " ", "D", "a", "t", "a", "b", "a", "s", "e">>, cluster |-> Missing] >>,
     connections |-> <<
        [source |-> <<"v", "p", "c">>, target |-> <<"e", "c", "2">>,
         label |-> <<"C", "o", "n", "t", "a", "i", "n", "s">>],
        [source |-> <<"e", "c", "2">>, target |-> <<"r", "d", "s">>,
         label |-> <<"C", "o", "n", "n", "e", "c", "t", "s">>] >>]

\* the `if ... elif ... else` on description_lower
diagram_spec(description) ==
    LET description_lower == lower(description) IN
    IF Contains(<<"e", "c", "2">>, description_lower)
       /\ Contains(<<"r", "d", "s">>, description_lower)
    THEN Ec2RdsSpecification
    ELSE IF Contains(<<"f", "a", "s", "t", "a", "p", "i">>, description_lower)
            /\ Contains(<<"s", "q", "s">>, description_lower)
    THEN FastApiSqsSpecification
    ELSE DefaultSpecification

\* the descriptions of the GenerateDiagramCommand objects handed to the service
Descriptions ==
    { <<"E", "C", "2", " ", "r", "d", "s">>,
      <<"r", "d", "s">>,
      <<"F", "a", "s", "t", "A", "P", "I", " ", "s", "q", "s">>,
      <<"s", "q", "s", " ", "e", "c", "2">>,
      <<"r", "d", "s", " ", "s", "q", "s", " ", "f", "a", "s", "t", "a", "p", "i", " ", "e", "c", "2">>,
      <<"d", "b">> }

(***************************************************************************)
(* DiagramsPackageRenderingService, the renderer the Container wires.      *)
(***************************************************************************)
\* the `if node_type == ... elif ... else` chain of create_diagram
Component(node_type) ==
    CASE node_type = <<"a", "w", "s", "_", "e", "c", "2">> -> "EC2"
      [] node_type = <<"a", "w", "s", "_", "l", "a", "m", "b", "d", "a">> -> "Lambda"
      [] node_type = <<"a", "w", "s", "_", "r", "d", "s">> -> "RDS"
      [] node_type = <<"a", "w", "s", "_", "v", "p", "c">> -> "VPC"
      [] node_type = <<"a", "w", "s", "_", "i", "n", "t", "e", "r", "n", "e", "t", "_", "g", "a", "t", "e", "w", "a", "y">> -> "InternetGateway"
      [] node_type = <<"a", "w", "s", "_", "s", "u", "b", "n", "e", "t">> -> "Subnet"
      [] node_type = <<"a", "w", "s", "_", "s", "e", "c", "u", "r", "i", "t", "y", "_", "g", "r", "o", "u", "p">> -> "SecurityGroup"
      [] node_type = <<"a", "w", "s", "_", "s", "q", "s">> -> "SQS"
      [] node_type = <<"a", "w", "s", "_", "s", "3">> -> "S3"
      [] node_type = <<"a", "w", "s", "_", "c", "l", "o", "u", "d", "w", "a", "t", "c", "h">> -> "CloudWatch"
      [] node_type = <<"a", "w", "s", "_", "a", "p", "i", "_", "g", "a", "t", "e", "w", "a", "y">> -> "Lambda"
      [] node_type = <<"a", "w", "s", "_", "d", "y", "n", "a", "m", "o", "d", "b">> -> "RDS"
      [] OTHER -> "EC2"

\* the name tempfile.NamedTemporaryFile(suffix=".png") gives the image
TemporaryImagePath == <<"/", "t", "m", "p", "/", "t", ".", "p", "n", "g">>

RenderRaise(kind, message) ==
    [raised |-> TRUE, kind |-> kind, message |-> message,
     image_path |-> None, components |-> <<>>]

\* `for node in nodes:` from nodes[i]; drawn holds the components made so far
RECURSIVE draw_nodes(_, _, _)
draw_nodes(nodes, i, drawn) ==
    IF i > Len(nodes)
    THEN [raised |-> FALSE, kind |-> "none", message |-> <<>>,
          image_path |-> TemporaryImagePath, components |-> drawn]
    ELSE IF nodes[i].id = Missing THEN RenderRaise("KeyError", <<"'", "i", "d", "'">>)
    ELSE IF nodes[i].type = Missing THEN RenderRaise("KeyError", <<"'", "t", "y", "p", "e", "'">>)
    ELSE draw_nodes(nodes, i + 1, Append(drawn, Component(nodes[i].type)))

\* DiagramsPackageRenderingService.create_diagram; drawing is what the diagrams
\* library does when the `with Diagram(...)` block is left: "drawn" or "fails"
rendering_service_create_diagram(nodes, connections, drawing) ==
    LET r == draw_nodes(nodes, 1, <<>>) IN
    IF r.raised THEN r
    ELSE IF \E i \in 1..Len(connections) : connections[i].source = Missing
    THEN RenderRaise("KeyError", <<"'", "s", "o", "u", "r", "c", "e", "'">>)
    ELSE IF \E i \in 1..Len(connections) : connections[i].target = Missing
    THEN RenderRaise("KeyError", <<"'", "t", "a", "r", "g", "e", "t", "'">>)
    ELSE IF drawing = "fails" THEN RenderRaise("Exception", <<"d", "o", "t">>)
    ELSE r

(***************************************************************************)
(* One call of generate_diagram_from_description.  The repository is used  *)
(* through the DiagramRepository protocol: saving is the outcome of its    *)
(* save, and rendering is "absent" when the service was built without a    *)
(* rendering service.                                                      *)
(***************************************************************************)
\* `{}`
EmptySpecification == [name |-> Missing, nodes |-> Missing, connections |-> Missing]

\* what `await self.diagram_repository.save(diagram)` can do: return, or raise
\* an exception e with str(e) = message
SaveOutcomes ==
    { [raised |-> FALSE, message |-> <<>>],
      [raised |-> TRUE,  message |-> <<>>],
      [raised |-> TRUE,  message |-> <<"d", "o", "w", "n">>] }

RenderOutcomes == {"absent", "drawn", "fails"}

\* a failure response that leaves the error out
FailureResponseWithoutError(message) ==
    [success |-> FALSE, diagram_id |-> 0, image_path |-> <<>>,
     specification |-> EmptySpecification, error |-> None]

\* the `except Exception as e:` branch; e has str(e) = message
FailureResponse(message) ==
    [success |-> FALSE, diagram_id |-> 0, image_path |-> <<>>,
     specification |-> EmptySpecification, error |-> message]

\* one call on a collaborator; message is str(e) when it raised e
Called(name, raised, message) ==
    [call |-> name, raised |-> raised, message |-> message]

generate_diagram_from_description(diagram_id, repo, description, saving, rendering) ==
    LET spec == diagram_spec(description)
        built == create_diagram_from_specification(
                     diagram_id, spec.name, spec.nodes, spec.connections)
        rendered == rendering_service_create_diagram(
                        spec.nodes, spec.connections, rendering)
        build_call == Called("create_diagram_from_specification",
                             built.status # "ok", <<built.status>>)
        save_call == Called("save", saving.raised, saving.message)
        render_call == Called("create_diagram", rendered.raised, rendered.message)
    IN  IF built.status # "ok"
        THEN [response |-> FailureResponse(<<built.status>>), repository |-> repo,
              diagram |-> EmptyDiagram, calls |-> <<build_call>>]
        ELSE IF saving.raised
        THEN [response |-> FailureResponse(saving.message), repository |-> repo,
              diagram |-> built.diagram, calls |-> <<build_call, save_call>>]
        ELSE [response |->
                [success |-> TRUE, diagram_id |-> built.diagram.id,
                 image_path |-> IF rendering = "absent" \/ rendered.raised
                                THEN <<>> ELSE rendered.image_path,
                 specification |-> spec, error |-> None],
              repository |-> save(repo, built.diagram),
              diagram |-> built.diagram,
              calls |-> IF rendering = "absent"
                        THEN <<build_call, save_call>>
                        ELSE <<build_call, save_call, render_call>>]

GenerateDiagramFromDescription ==
    /\ pc = "service"
    /\ calls < MaxRequests
    /\ \E description \in Descriptions, saving \in SaveOutcomes,
          rendering \in RenderOutcomes :
         LET r == generate_diagram_from_description(
                      nextId, repository, description, saving, rendering) IN
         /\ request' = [description |-> description]
         /\ reply' = [op |-> "generate_diagram_from_description",
                      response |-> r.response]
         /\ repository' = r.repository
         /\ diagram' = r.diagram
         /\ history' = r.calls
    /\ nextId' = nextId + 1
    /\ calls' = calls + 1
    /\ UNCHANGED <<last, pc, res>>
    /\ UNCHANGED processVars

\* a DiagramApplicationService on an empty repository
InitService ==
    /\ diagram = EmptyDiagram
    /\ last = NoCall
    /\ calls = 0
    /\ request = NoRequest
    /\ pc = "service"
    /\ res = NoResults
    /\ repository = EmptyRepository
    /\ nextId = 1
    /\ history = <<>>
    /\ reply = NoReply
    /\ InitProcess

NextService == GenerateDiagramFromDescription

SpecService == InitService /\ [][NextService]_vars

\* the last request reached the renderer and the renderer raised
RendererRaised ==
    /\ reply.op = "generate_diagram_from_description"
    /\ \E i \in 1..Len(history) :
          history[i].call = "create_diagram" /\ history[i].raised

\* C12: when the renderer raises during generate_diagram_from_description,
\* the response still has success = true, a specification that passes the
\* builder's validation and an empty image path, and the Diagram built for
\* the request is stored in the repository under the returned diagram_id.
C12_RenderFailureDegrades ==
    RendererRaised =>
        /\ reply.response.success
        /\ validate_diagram_specification(
               reply.response.specification.nodes,
               reply.response.specification.connections) = "True"
        /\ reply.response.image_path = <<>>
        /\ diagram.id = reply.response.diagram_id
        /\ find_by_id(repository, reply.response.diagram_id).found
        /\ find_by_id(repository, reply.response.diagram_id).diagram = diagram

C12_Witness ==
    /\ RendererRaised
    /\ reply.response.success
    /\ reply.response.specification = Ec2RdsSpecification
    /\ Len(diagram.nodes) = Len(Ec2RdsSpecification.nodes)
    /\ Len(repository) = MaxRequests
    /\ repository[Len(repository)].value = diagram

\* the last request failed in building or in saving
GenerationFailed ==
    /\ reply.op = "generate_diagram_from_description"
    /\ \E i \in 1..Len(history) :
          history[i].call \in {"create_diagram_from_specification", "save"}
          /\ history[i].raised

\* the exception the last request caught in building or in saving
CaughtMessage ==
    history[CHOOSE i \in 1..Len(history) :
               history[i].call \in {"create_diagram_from_specification", "save"}
               /\ history[i].raised].message

llm_service_generate_diagram_specification(description) ==
    [name |-> <<"M", "o", "c", "k", " ", "D", "i", "a", "g", "r", "a", "m">>,
     nodes |-> <<>>, connections |-> <<>>]

\* C14: each request first calls the LLM service's generate_diagram_specification
\* with the description, then builds a Diagram from the returned specification,
\* then saves it, then attempts the render; the specification of the response
\* is the one the LLM service returned.
C14_LlmThenBuildSaveRender ==
    (reply.op = "generate_diagram_from_description" /\ reply.response.success) =>
        /\ Len(history) >= 3
        /\ history[1].call = "generate_diagram_specification"
        /\ history[2].call = "create_diagram_from_specification"
        /\ history[3].call = "save"
        /\ \A i \in 4..Len(history) : history[i].call = "create_diagram"
        /\ reply.response.specification =
              llm_service_generate_diagram_specification(request.description)

(***************************************************************************)
(* The two renderers: DiagramTools and DiagramsPackageRenderingService.    *)
(***************************************************************************)
\* DiagramsPackageRenderingService.get_supported_node_types: the types its
\* chain names
ServiceNodeTypes ==
    { <<"a", "w", "s", "_", "e", "c", "2">>,
      <<"a", "w", "s", "_", "l", "a", "m", "b", "d", "a">>,
      <<"a", "w", "s", "_", "r", "d", "s">>,
      <<"a", "w", "s", "_", "v", "p", "c">>,
      <<"a", "w", "s", "_", "i", "n", "t", "e", "r", "n", "e", "t", "_", "g", "a", "t", "e", "w", "a", "y">>,
      <<"a", "w", "s", "_", "s", "u", "b", "n", "e", "t">>,
      <<"a", "w", "s", "_", "s", "e", "c", "u", "r", "i", "t", "y", "_", "g", "r", "o", "u", "p">>,
      <<"a", "w", "s", "_", "s", "q", "s">>,
      <<"a", "w", "s", "_", "s", "3">>,
      <<"a", "w", "s", "_", "c", "l", "o", "u", "d", "w", "a", "t", "c", "h">>,
      <<"a", "w", "s", "_", "a", "p", "i", "_", "g", "a", "t", "e", "w", "a", "y">>,
      <<"a", "w", "s", "_", "d", "y", "n", "a", "m", "o", "d", "b">> }

\* keys of DiagramTools.supported_node_types: found by listing the installed
\* diagrams package; these are the ones the tests count on
ToolsNodeTypes ==
    { <<"a", "w", "s", "_", "e", "c", "2">>,
      <<"a", "w", "s", "_", "r", "d", "s">>,
      <<"a", "w", "s", "_", "a", "l", "b">>,
      <<"g", "c", "p", "_", "c", "o", "m", "p", "u", "t", "e", "_", "e", "n", "g", "i", "n", "e">>,
      <<"a", "z", "u", "r", "e", "_", "v", "m">> }

\* the f-string of create_node up to the type; the list of supported types
\* that follows it is left out
UnsupportedNodeType(node_type) ==
    <<"U", "n", "s", "u", "p", "p", "o", "r", "t", "e", "d", " ", "n", "o", "d", "e", " ", "t", "y", "p", "e", ":", " ">>
        \o node_type \o <<".">>

\* the name DiagramTools gives the image: images_dir/<uuid>.png
ToolsImagePath == <<"/", "i", "/", "u", ".", "p", "n", "g">>

\* DiagramTools.create_node, then created_nodes[node_id] = node
create_node(node_info, created) ==
    IF node_info.type = Missing THEN RenderRaise("KeyError", <<"'", "t", "y", "p", "e", "'">>)
    ELSE IF node_info.label = Missing THEN RenderRaise("KeyError", <<"'", "l", "a", "b", "e", "l", "'">>)
    ELSE IF lower(node_info.type) \notin ToolsNodeTypes
    THEN RenderRaise("ValueError", UnsupportedNodeType(node_info.type))
    ELSE [raised |-> FALSE, kind |-> "none", message |-> <<>>,
          image_path |-> ToolsImagePath,
          components |-> created \cup {node_info.id}]

\* `for node_id in cluster_nodes:` of one cluster, from cluster_nodes[i];
\* components holds the keys of created_nodes
RECURSIVE create_cluster_nodes(_, _, _, _)
create_cluster_nodes(nodes, cluster_nodes, i, created) ==
    IF i > Len(cluster_nodes)
    THEN [raised |-> FALSE, kind |-> "none", message |-> <<>>,
          image_path |-> ToolsImagePath, components |-> created]
    ELSE IF \E k \in 1..Len(nodes) : nodes[k].id = cluster_nodes[i]
    THEN LET k == CHOOSE k \in 1..Len(nodes) :
                    /\ nodes[k].id = cluster_nodes[i]
                    /\ \A j \in 1..(k - 1) : nodes[j].id # cluster_nodes[i]
             r == create_node(nodes[k], created)
         IN  IF r.raised THEN r
             ELSE create_cluster_nodes(nodes, cluster_nodes, i + 1, r.components)
    ELSE create_cluster_nodes(nodes, cluster_nodes, i + 1, created)

\* `for cluster_info in clusters:` from clusters[i]
RECURSIVE create_clusters(_, _, _, _)
create_clusters(nodes, clusters, i, created) ==
    IF i > Len(clusters)
    THEN [raised |-> FALSE, kind |-> "none", message |-> <<>>,
          image_path |-> ToolsImagePath, components |-> created]
    ELSE LET r == create_cluster_nodes(nodes, clusters[i].nodes, 1, created) IN
         IF r.raised THEN r
         ELSE create_clusters(nodes, clusters, i + 1, r.components)

\* `for node_info in nodes:` from nodes[i]: the nodes not yet created
RECURSIVE create_remaining_nodes(_, _, _)
create_remaining_nodes(nodes, i, created) ==
    IF i > Len(nodes)
    THEN [raised |-> FALSE, kind |-> "none", message |-> <<>>,
          image_path |-> ToolsImagePath, components |-> created]
    ELSE IF nodes[i].id = Missing THEN RenderRaise("KeyError", <<"'", "i", "d", "'">>)
    ELSE IF nodes[i].id \in created
    THEN create_remaining_nodes(nodes, i + 1, created)
    ELSE LET r == create_node(nodes[i], created) IN
         IF r.raised THEN r
         ELSE create_remaining_nodes(nodes, i + 1, r.components)

\* the node objects made inside one `with Cluster(cluster_name)` block, from
\* cluster_nodes[i]: one for each listed id that a node declares
RECURSIVE drawn_in_cluster(_, _, _, _)
drawn_in_cluster(nodes, cluster_name, cluster_nodes, i) ==
    IF i > Len(cluster_nodes) THEN <<>>
    ELSE IF \E k \in 1..Len(nodes) : nodes[k].id = cluster_nodes[i]
    THEN << [id |-> cluster_nodes[i], cluster |-> cluster_name] >>
            \o drawn_in_cluster(nodes, cluster_name, cluster_nodes, i + 1)
    ELSE drawn_in_cluster(nodes, cluster_name, cluster_nodes, i + 1)

\* the node objects made by `for cluster_info in clusters:` from clusters[i]
RECURSIVE drawn_in_clusters(_, _, _)
drawn_in_clusters(nodes, clusters, i) ==
    IF i > Len(clusters) THEN <<>>
    ELSE drawn_in_cluster(nodes, clusters[i].name, clusters[i].nodes, 1)
            \o drawn_in_clusters(nodes, clusters, i + 1)

\* the node objects made outside any cluster by `for node_info in nodes:`
\* from nodes[i]; created holds the keys of created_nodes
RECURSIVE drawn_outside(_, _, _)
drawn_outside(nodes, i, created) ==
    IF i > Len(nodes) THEN <<>>
    ELSE IF nodes[i].id \in created THEN drawn_outside(nodes, i + 1, created)
    ELSE << [id |-> nodes[i].id, cluster |-> None] >>
            \o drawn_outside(nodes, i + 1, created \cup {nodes[i].id})

\* every node object a create_diagram call that returns has put in the
\* drawing, in the order of creation
drawn_nodes(nodes, clusters) ==
    LET inside == drawn_in_clusters(nodes, clusters, 1)
    IN  inside \o drawn_outside(nodes, 1, {inside[i].id : i \in 1..Len(inside)})

\* a create_diagram that returns the path of an image whatever it is given
tools_create_diagram_always_drawn(nodes, connections, clusters, drawing) ==
    [raised |-> FALSE, kind |-> "none", message |-> <<>>,
     image_path |-> ToolsImagePath, components |-> {}]

\* DiagramTools.create_diagram; clusters is <<>> for None and for [] alike
\* (`if clusters:`), and drawing is what the diagrams library does when the
\* `with Diagram(...)` block is left
tools_create_diagram(nodes, connections, clusters, drawing) ==
    LET inClusters == create_clusters(nodes, clusters, 1, {})
    IN  IF inClusters.raised THEN inClusters
        ELSE LET r == create_remaining_nodes(nodes, 1, inClusters.components) IN
             IF r.raised THEN r
             ELSE IF \E i \in 1..Len(connections) : connections[i].source = Missing
             THEN RenderRaise("KeyError", <<"'", "s", "o", "u", "r", "c", "e", "'">>)
             ELSE IF \E i \in 1..Len(connections) : connections[i].target = Missing
             THEN RenderRaise("KeyError", <<"'", "t", "a", "r", "g", "e", "t", "'">>)
             ELSE IF drawing = "fails" THEN RenderRaise("Exception", <<"d", "o", "t">>)
             ELSE r

\* the node dicts handed to a renderer
RenderNodeInputs ==
    { [id |-> <<"a">>, type |-> <<"a", "w", "s", "_", "e", "c", "2">>,
       label |-> <<"x">>, cluster |-> Missing],
      [id |-> <<"b">>, type |-> <<"a", "w", "s", "_", "E", "c", "2">>,
       label |-> <<"x">>, cluster |-> Missing],
      [id |-> <<"c">>, type |-> <<"b", "o", "g", "u", "s">>,
       label |-> <<"x">>, cluster |-> Missing],
      [id |-> <<"a">>, type |-> <<"n", "o", "p", "e">>,
       label |-> <<"x">>, cluster |-> Missing],
      [id |-> <<"e">>, type |-> <<"a", "w", "s", "_", "a", "l", "b">>,
       label |-> <<"x">>, cluster |-> Missing],
      [id |-> <<"f">>, type |-> <<"a", "w", "s", "_", "s", "q", "s">>,
       label |-> <<"x">>, cluster |-> Missing] }

RenderConnectionInputs ==
    { <<>>, << [source |-> <<"a">>, target |-> <<"c">>, label |-> Missing] >> }

RenderClusterInputs ==
    { <<>>,
      << [name |-> <<"g">>, nodes |-> << <<"c">>, <<"z">> >>] >>,
      << [name |-> <<"g">>, nodes |-> << <<"a">>, <<"z">> >>] >>,
      << [name |-> <<"g">>, nodes |-> << <<"a">>, <<"a">> >>] >>,
      << [name |-> <<"g">>, nodes |-> << <<"a">> >>],
         [name |-> <<"h">>, nodes |-> << <<"a">> >>] >> }

RenderRequests ==
    { [name |-> <<"X">>, nodes |-> ns, connections |-> cs, clusters |-> gs] :
        ns \in SeqsUpTo(RenderNodeInputs, MaxNodes),
        cs \in RenderConnectionInputs,
        gs \in RenderClusterInputs }

DrawingOutcomes == {"drawn", "fails"}

ToolsCreateDiagram ==
    /\ pc = "renderer"
    /\ \E drawing \in DrawingOutcomes :
         LET r == tools_create_diagram(request.nodes, request.connections,
                                       request.clusters, drawing) IN
         reply' = [op |-> "DiagramTools.create_diagram", raised |-> r.raised,
                   message |-> r.message, image_path |-> r.image_path,
                   drawn |-> IF r.raised THEN <<>>
                             ELSE drawn_nodes(request.nodes, request.clusters)]
    /\ UNCHANGED <<diagram, last, calls, request, pc, res, repository, nextId, history>>
    /\ UNCHANGED processVars

RenderingServiceCreateDiagram ==
    /\ pc = "renderer"
    /\ \E drawing \in DrawingOutcomes :
         LET r == rendering_service_create_diagram(request.nodes,
                                                   request.connections, drawing) IN
         reply' = [op |-> "DiagramsPackageRenderingService.create_diagram",
                   raised |-> r.raised, message |-> r.message,
                   image_path |-> r.image_path]
    /\ UNCHANGED <<diagram, last, calls, request, pc, res, repository, nextId, history>>
    /\ UNCHANGED processVars

\* one diagram handed to the renderers
InitRenderer ==
    /\ request \in RenderRequests
    /\ diagram = EmptyDiagram
    /\ last = NoCall
    /\ calls = 0
    /\ pc = "renderer"
    /\ res = NoResults
    /\ repository = EmptyRepository
    /\ nextId = 1
    /\ history = <<>>
    /\ reply = NoReply
    /\ InitProcess

NextRenderer == ToolsCreateDiagram \/ RenderingServiceCreateDiagram

SpecRenderer == InitRenderer /\ [][NextRenderer]_vars

\* the types of the request that the renderer called last does not map
UnmappedTypes ==
    IF reply.op = "DiagramTools.create_diagram"
    THEN {request.nodes[i].type : i \in
            {k \in 1..Len(request.nodes) :
               lower(request.nodes[k].type) \notin ToolsNodeTypes}}
    ELSE {request.nodes[i].type : i \in
            {k \in 1..Len(request.nodes) :
               request.nodes[k].type \notin ServiceNodeTypes}}

\* the ids some cluster of the request lists
ListedInClusters ==
    UNION { {request.clusters[g].nodes[i] : i \in 1..Len(request.clusters[g].nodes)} :
              g \in 1..Len(request.clusters) }

\* C29: a DiagramTools.create_diagram call that returns has drawn every
\* declared node id exactly once, inside a cluster when a cluster lists the
\* id and outside any cluster otherwise, and has drawn nothing for an id
\* that no node declares.
C29_EachNodeDrawnOnce ==
    (reply.op = "DiagramTools.create_diagram" /\ ~reply.raised) =>
        /\ \A k \in 1..Len(request.nodes) :
              /\ Cardinality({i \in 1..Len(reply.drawn) :
                                reply.drawn[i].id = request.nodes[k].id}) = 1
              /\ \A i \in 1..Len(reply.drawn) :
                    reply.drawn[i].id = request.nodes[k].id =>
                       (reply.drawn[i].cluster # None
                          <=> request.nodes[k].id \in ListedInClusters)
        /\ \A i \in 1..Len(reply.drawn) :
              \E k \in 1..Len(request.nodes) :
                 request.nodes[k].id = reply.drawn[i].id

\* C15: each renderer, given a diagram with a node whose type is absent from
\* its type mapping, fails with an error that names such a type and returns
\* no image path.
C15_UnknownTypeFails ==
    (reply.op # "none" /\ UnmappedTypes # {}) =>
        /\ reply.raised
        /\ \E type \in UnmappedTypes : Contains(type, reply.message)
        /\ reply.image_path = None

(***************************************************************************)
(* Reading a specification out of a model reply: str.find, str.rfind,      *)
(* slicing and json.loads.  json.loads is written out for the JSON of      *)
(* objects, arrays and strings without escapes, which is the JSON the      *)
(* replies of this model are made of.                                      *)
(***************************************************************************)
\* a find that returns the index of the last c
find_last(s, c) ==
    IF \E i \in 1..Len(s) : s[i] = c
    THEN (CHOOSE i \in 1..Len(s) : s[i] = c /\ \A j \in (i + 1)..Len(s) : s[j] # c) - 1
    ELSE -1

\* s.find(c): the 0-based index of the first c, or -1
find(s, c) ==
    IF \E i \in 1..Len(s) : s[i] = c
    THEN (CHOOSE i \in 1..Len(s) : s[i] = c /\ \A j \in 1..(i - 1) : s[j] # c) - 1
    ELSE -1

\* s.rfind(c): the 0-based index of the last c, or -1
rfind(s, c) ==
    IF \E i \in 1..Len(s) : s[i] = c
    THEN (CHOOSE i \in 1..Len(s) : s[i] = c /\ \A j \in (i + 1)..Len(s) : s[j] # c) - 1
    ELSE -1

\* s[start:end] for start >= 0 and end >= 0
slice(s, start, end) == SubSeq(s, start + 1, IF end > Len(s) THEN Len(s) ELSE end)

JsonFail == [ok |-> FALSE, next |-> 0, value |-> [t |-> "none"]]
JsonOk(next, value) == [ok |-> TRUE, next |-> next, value |-> value]

\* the first position from i on that holds no white space
RECURSIVE skip_ws(_, _)
skip_ws(s, i) ==
    IF i <= Len(s) /\ s[i] \in Whitespace THEN skip_ws(s, i + 1) ELSE i

\* a string whose opening quote is at i
parse_string(s, i) ==
    IF \E j \in (i + 1)..Len(s) : s[j] = "\""
    THEN LET j == CHOOSE j \in (i + 1)..Len(s) :
                     s[j] = "\"" /\ \A k \in (i + 1)..(j - 1) : s[k] # "\""
         IN  JsonOk(j + 1, [t |-> "str", s |-> SubSeq(s, i + 1, j - 1)])
    ELSE JsonFail

RECURSIVE parse_value(_, _)
RECURSIVE parse_items(_, _, _)
RECURSIVE parse_members(_, _, _, _)

\* the items of an array from i on, after those in items
parse_items(s, i, items) ==
    LET r == parse_value(s, i)
        k == skip_ws(s, r.next)
    IN  IF ~r.ok \/ k > Len(s) THEN JsonFail
        ELSE IF s[k] = "," THEN parse_items(s, k + 1, Append(items, r.value))
        ELSE IF s[k] = "]"
        THEN JsonOk(k + 1, [t |-> "arr", items |-> Append(items, r.value)])
        ELSE JsonFail

\* the members of an object from i on, after those in keys and vals
parse_members(s, i, keys, vals) ==
    LET k == skip_ws(s, i) IN
    IF k > Len(s) \/ s[k] # "\"" THEN JsonFail
    ELSE LET key == parse_string(s, k)
             c == skip_ws(s, key.next)
         IN  IF ~key.ok \/ c > Len(s) \/ s[c] # ":" THEN JsonFail
             ELSE LET r == parse_value(s, c + 1)
                      e == skip_ws(s, r.next)
                  IN  IF ~r.ok \/ e > Len(s) THEN JsonFail
                      ELSE IF s[e] = ","
                      THEN parse_members(s, e + 1, Append(keys, key.value.s),
                                         Append(vals, r.value))
                      ELSE IF s[e] = "}"
                      THEN JsonOk(e + 1, [t |-> "obj",
                                          keys |-> Append(keys, key.value.s),
                                          vals |-> Append(vals, r.value)])
                      ELSE JsonFail

\* the value that starts at the first position from i on holding no white space
parse_value(s, i) ==
    LET j == skip_ws(s, i)
        k == skip_ws(s, j + 1)
    IN  IF j > Len(s) THEN JsonFail
        ELSE IF s[j] = "\"" THEN parse_string(s, j)
        ELSE IF s[j] = "["
        THEN IF k <= Len(s) /\ s[k] = "]"
             THEN JsonOk(k + 1, [t |-> "arr", items |-> <<>>])
             ELSE parse_items(s, k, <<>>)
        ELSE IF s[j] = "{"
        THEN IF k <= Len(s) /\ s[k] = "}"
             THEN JsonOk(k + 1, [t |-> "obj", keys |-> <<>>, vals |-> <<>>])
             ELSE parse_members(s, k, <<>>, <<>>)
        ELSE JsonFail

\* json.loads(text): ok is FALSE for json.JSONDecodeError
json_loads(text) ==
    LET r == parse_value(text, 1) IN
    IF r.ok /\ skip_ws(text, r.next) > Len(text) THEN r ELSE JsonFail

\* diagram_data[key] of a parsed object: the value given last under the key
field(obj, key) ==
    IF \E i \in 1..Len(obj.keys) : obj.keys[i] = key
    THEN obj.vals[CHOOSE i \in 1..Len(obj.keys) :
                     obj.keys[i] = key /\ \A j \in (i + 1)..Len(obj.keys) : obj.keys[j] # key]
    ELSE [t |-> "absent"]

\* List[Dict[str, Any]]
ListOfDicts(v) == v.t = "arr" /\ \A i \in 1..Len(v.items) : v.items[i].t = "obj"

\* a str entry of a dict as the model writes it; Missing when the key is absent
text(v) == IF v.t = "str" THEN v.s ELSE Missing

node_dict(o) ==
    [id |-> text(field(o, <<"i", "d">>)),
     type |-> text(field(o, <<"t", "y", "p", "e">>)),
     label |-> text(field(o, <<"l", "a", "b", "e", "l">>)),
     cluster |-> text(field(o, <<"c", "l", "u", "s", "t", "e", "r">>))]

connection_dict(o) ==
    [source |-> text(field(o, <<"s", "o", "u", "r", "c", "e">>)),
     target |-> text(field(o, <<"t", "a", "r", "g", "e", "t">>)),
     label |-> text(field(o, <<"l", "a", "b", "e", "l">>))]

\* DiagramRequest(**diagram_data) on a parsed object: ok is FALSE for the
\* pydantic ValidationError; clusters are read by the renderer only
DiagramRequestOfJson(diagram_data) ==
    LET name == field(diagram_data, <<"n", "a", "m", "e">>)
        nodes == field(diagram_data, <<"n", "o", "d", "e", "s">>)
        connections == field(diagram_data, <<"c", "o", "n", "n", "e", "c", "t", "i", "o", "n", "s">>)
        clusters == field(diagram_data, <<"c", "l", "u", "s", "t", "e", "r", "s">>)
    IN  IF /\ name.t = "str"
           /\ ListOfDicts(nodes)
           /\ ListOfDicts(connections)
           /\ (clusters.t = "absent" \/ ListOfDicts(clusters))
        THEN DiagramRequest(
                 [name |-> name.s,
                  nodes |-> [i \in 1..Len(nodes.items) |-> node_dict(nodes.items[i])],
                  connections |-> [i \in 1..Len(connections.items) |->
                                     connection_dict(connections.items[i])]])
        ELSE Invalid

\* GeminiClient.generate_diagram_specification from `response.text` on
GeminiRaise(kind) ==
    [raised |-> TRUE, kind |-> kind, json_content |-> None,
     returned |-> FALSE, specification |-> EmptySpecification]

gemini_generate_diagram_specification(response) ==
    LET response_text == strip(response)
        json_start == find(response_text, "{")
        json_end == rfind(response_text, "}") + 1
        json_content == slice(response_text, json_start, json_end)
        loaded == json_loads(json_content)
        request_ == DiagramRequestOfJson(loaded.value)
    IN  IF json_start = -1 \/ json_end = 0 THEN GeminiRaise("ValueError")
        ELSE IF ~loaded.ok
        THEN [GeminiRaise("ValueError") EXCEPT !.json_content = json_content]
        ELSE IF ~request_.ok
        THEN [GeminiRaise("ValidationError") EXCEPT !.json_content = json_content]
        ELSE [raised |-> FALSE, kind |-> "none", json_content |-> json_content,
              returned |-> TRUE, specification |-> request_.v]

\* ChatAgent._parse_and_create_diagram; clusters of the replies are empty
ChatResult(type, json_content) ==
    [type |-> type, json_content |-> json_content,
     returned |-> FALSE, specification |-> EmptySpecification]

parse_and_create_diagram(response, drawing) ==
    LET json_start == find(response, "{")
        json_end == rfind(response, "}") + 1
        json_content == slice(response, json_start, json_end)
        loaded == json_loads(json_content)
        diagram_spec_ == DiagramRequestOfJson(loaded.value)
        image == tools_create_diagram(diagram_spec_.v.nodes,
                                      diagram_spec_.v.connections, <<>>, drawing)
    IN  IF json_start # -1 /\ json_end > json_start
        THEN IF ~loaded.ok THEN ChatResult("error", json_content)
             ELSE IF ~diagram_spec_.ok THEN ChatResult("error", json_content)
             ELSE IF image.raised THEN ChatResult("error", json_content)
             ELSE [type |-> "diagram", json_content |-> json_content,
                   returned |-> TRUE, specification |-> diagram_spec_.v]
        ELSE ChatResult("text", None)

\* the texts a model reply is made of here: words around a JSON part
ReplyPrefixes == { <<>>, <<"S", "u", "r", "e", "!", " ">>, <<"}", " ">>, <<"{", " ">> }

ReplyCores ==
    { <<"{", "\"", "n", "a", "m", "e", "\"", ":", "\"", "X", "\"", ",", "\"", "n", "o", "d", "e", "s", "\"", ":", "[", "]", ",", "\"", "c", "o", "n", "n", "e", "c", "t", "i", "o", "n", "s", "\"", ":", "[", "]", "}">>,
      <<"{", "\"", "n", "a", "m", "e", "\"", ":", "\"", "X", "\"", ",", "\"", "n", "o", "d", "e", "s", "\"", ":", "[", "{", "\"", "i", "d", "\"", ":", "\"", "a", "\"", ",", "\"", "t", "y", "p", "e", "\"", ":", "\"", "a", "w", "s", "_", "e", "c", "2", "\"", ",", "\"", "l", "a", "b", "e", "l", "\"", ":", "\"", "x", "\"", "}", "]", ",", "\"", "c", "o", "n", "n", "e", "c", "t", "i", "o", "n", "s", "\"", ":", "[", "]", "}">>,
      <<"{", "\"", "n", "a", "m", "e", "\"", ":", "\"", "X", "\"", "}">>,
      <<"{", "\"", "n", "a", "m", "e", "\"", ":", "\"", "X", "\"", ",", "}">>,
      <<"{", "}">>,
      <<"{">>,
      <<"}">>,
      <<"h", "i">> }

ReplySuffixes == { <<>>, <<" ", "T", "h", "a", "n", "k", "s", ".">>, <<" ", "{">>, <<" ", "}">> }

ModelReplies ==
    { before \o core \o after :
        before \in ReplyPrefixes, core \in ReplyCores, after \in ReplySuffixes }

GenerateDiagramSpecificationFromReply ==
    /\ pc = "reply"
    /\ LET r == gemini_generate_diagram_specification(request.response) IN
       reply' = [op |-> "GeminiClient.generate_diagram_specification",
                 failed |-> r.raised /\ r.kind = "ValueError",
                 json_content |-> r.json_content,
                 returned |-> r.returned, specification |-> r.specification]
    /\ UNCHANGED <<diagram, last, calls, request, pc, res, repository, nextId, history>>
    /\ UNCHANGED processVars

ParseAndCreateDiagram ==
    /\ pc = "reply"
    /\ \E drawing \in DrawingOutcomes :
         LET r == parse_and_create_diagram(request.response, drawing) IN
         reply' = [op |-> "ChatAgent._parse_and_create_diagram",
                   failed |-> r.type = "error",
                   json_content |-> r.json_content,
                   returned |-> r.returned, specification |-> r.specification]
    /\ UNCHANGED <<diagram, last, calls, request, pc, res, repository, nextId, history>>
    /\ UNCHANGED processVars

\* one reply of the model
InitReply ==
    /\ request \in { [response |-> r] : r \in ModelReplies }
    /\ diagram = EmptyDiagram
    /\ last = NoCall
    /\ calls = 0
    /\ pc = "reply"
    /\ res = NoResults
    /\ repository = EmptyRepository
    /\ nextId = 1
    /\ history = <<>>
    /\ reply = NoReply
    /\ InitProcess

NextReply == GenerateDiagramSpecificationFromReply \/ ParseAndCreateDiagram

SpecReply == InitReply /\ [][NextReply]_vars

\* the reply has a '{' and, at or after the first one, a '}'
HasSpan(s) ==
    \E i, j \in 1..Len(s) : i < j /\ s[i] = "{" /\ s[j] = "}"

\* the part of the reply from its first '{' to its last '}', both included
Span(s) ==
    LET i == CHOOSE i \in 1..Len(s) : s[i] = "{" /\ \A k \in 1..(i - 1) : s[k] # "{"
        j == CHOOSE j \in 1..Len(s) : s[j] = "}" /\ \A k \in (j + 1)..Len(s) : s[k] # "}"
    IN  [k \in 1..(j - i + 1) |-> s[i + k - 1]]

\* no '{', no '}' after the first '{', or a span that is not JSON
Malformed(s) == ~HasSpan(s) \/ ~json_loads(Span(s)).ok

ExtractionDone ==
    reply.op \in {"GeminiClient.generate_diagram_specification",
                  "ChatAgent._parse_and_create_diagram"}

\* C16 as stated: JSON extraction returns exactly the part of the reply from
\* the first '{' to the last '}'; it fails with a malformed-output error when
\* the reply has no '{', has no '}' or the part is not valid JSON, and then
\* no specification is returned.
C16_ExtractionFailsOrReturnsSpan ==
    ExtractionDone =>
        /\ reply.returned =>
              HasSpan(request.response) /\ reply.json_content = Span(request.response)
        /\ Malformed(request.response) => (reply.failed /\ ~reply.returned)

\* C16: a specification is returned only from the part of the reply from the
\* first '{' to the last '}', parsed as JSON.  When the reply has no such
\* part or the part is not valid JSON no specification is returned:
\* GeminiClient.generate_diagram_specification raises ValueError, and
\* ChatAgent._parse_and_create_diagram returns type "error" for a part that
\* is not valid JSON and type "text" for a reply without such a part.
C16_ExtractionReturnsSpan ==
    ExtractionDone =>
        /\ reply.returned =>
              /\ HasSpan(request.response)
              /\ reply.json_content = Span(request.response)
              /\ reply.specification =
                    DiagramRequestOfJson(json_loads(Span(request.response)).value).v
        /\ Malformed(request.response) =>
              /\ ~reply.returned
              /\ reply.specification = EmptySpecification
              /\ reply.failed <=>
                    \/ reply.op = "GeminiClient.generate_diagram_specification"
                    \/ HasSpan(request.response)

C16_Witness ==
    /\ reply.op = "GeminiClient.generate_diagram_specification"
    /\ reply.returned
    /\ Len(reply.json_content) < Len(strip(request.response)) - 2
    /\ Len(reply.specification.nodes) = 1
    /\ reply.specification.nodes[1].type = <<"a", "w", "s", "_", "e", "c", "2">>

(***************************************************************************)
(* api/routes.py: the agent pool, /assistant-chat and /health.             *)
(***************************************************************************)
\* diagram_indicators of DiagramAgent._looks_like_diagram_request
DiagramIndicators ==
    { <<"\"", "n", "o", "d", "e", "s", "\"", ":">>,
      <<"\"", "c", "o", "n", "n", "e", "c", "t", "i", "o", "n", "s", "\"", ":">>,
      <<"\"", "c", "l", "u", "s", "t", "e", "r", "s", "\"", ":">>,
      <<"d", "i", "a", "g", "r", "a", "m">>,
      <<"a", "r", "c", "h", "i", "t", "e", "c", "t", "u", "r", "e">>,
      <<"c", "r", "e", "a", "t", "e">>,
      <<"g", "e", "n", "e", "r", "a", "t", "e">> }

looks_like_diagram_request(response) ==
    LET response_lower == lower(response) IN
    \E indicator \in DiagramIndicators : Contains(indicator, response_lower)

\* a dict the agent returns: keys holds the keys it has, and a field whose
\* key it has not is a filler
AgentResult(keys, type, response, specification) ==
    [keys |-> keys, type |-> type, response |-> response,
     specification |-> specification]

\* what `await self.llm_client.assistant_chat(...)` can do: return the text
\* of a reply, or raise
\* replies in plain words, some with braces
FreeTextReplies ==
    { <<"I", " ", "c", "a", "n", " ", "c", "r", "e", "a", "t", "e", " ", "{", "a", "}", " ", "f", "o", "r", " ", "y", "o", "u">>,
      <<"U", "s", "e", " ", "{", "}", " ", "t", "o", " ", "g", "e", "n", "e", "r", "a", "t", "e", " ", "i", "t">>,
      <<"I", " ", "c", "r", "e", "a", "t", "e">>,
      <<"o", "k", " ", "{", "a", "}">>,
      <<"a", " ", "d", "i", "a", "g", "r", "a", "m">> }

AssistantReplies ==
    { [raised |-> FALSE, response |-> strip(r)] : r \in ModelReplies \cup FreeTextReplies }
        \cup { [raised |-> TRUE, response |-> <<>>] }

\* DiagramAgent.chat_with_assistant; its reading of the reply is the code of
\* ChatAgent._parse_and_create_diagram written inline
chat_with_assistant(llm, drawing) ==
    LET parsed == parse_and_create_diagram(llm.response, drawing) IN
    IF llm.raised
    THEN AgentResult({"type", "message"}, "error", <<>>, EmptySpecification)
    ELSE IF looks_like_diagram_request(llm.response)
    THEN IF parsed.type = "diagram"
         THEN AgentResult({"type", "diagram_path", "message", "specification",
                           "response"},
                          "diagram", llm.response, parsed.specification)
         ELSE IF parsed.type = "error"
         THEN AgentResult({"type", "message"}, "error", <<>>, EmptySpecification)
         ELSE AgentResult({"type", "response"}, "text", llm.response,
                          EmptySpecification)
    ELSE AgentResult({"type", "response", "supported_node_types"}, "text",
                     llm.response, EmptySpecification)

\* raise HTTPException(status_code=500, ...)
ServerError ==
    [status_code |-> 500, type |-> "none", response |-> <<>>,
     image_url |-> <<>>, specification |-> EmptySpecification]

\* the route assistant_chat on the dict the agent returned
assistant_chat(response) ==
    IF response.type = "diagram"
    THEN IF "image_path" \notin response.keys THEN ServerError
         ELSE IF "text_response" \notin response.keys THEN ServerError
         ELSE IF "specification" \notin response.keys THEN ServerError
         ELSE [status_code |-> 200, type |-> "diagram",
               response |-> response.response,
               image_url |-> <<"/", "a", "p", "i", "/", "i", "m", "a", "g", "e", "s", "/", "u", ".", "p", "n", "g">>,
               specification |-> response.specification]
    ELSE IF "text_response" \notin response.keys THEN ServerError
         ELSE [status_code |-> 200, type |-> "text",
               response |-> response.response,
               image_url |-> <<>>, specification |-> EmptySpecification]

\* DiagramAgentPool.get_agent: DiagramAgent(...) is made, or its making raises
AgentOutcomes == {"made", "raises"}

AssistantChat ==
    /\ pc = "routes"
    /\ request.route = "assistant-chat"
    /\ LET result == chat_with_assistant(request.llm, request.drawing) IN
       reply' = [op |-> "assistant_chat",
                 agent |-> IF request.agent = "made" THEN result
                           ELSE AgentResult({}, "none", <<>>, EmptySpecification),
                 http |-> IF request.agent = "made" THEN assistant_chat(result)
                          ELSE ServerError]
    /\ UNCHANGED <<diagram, last, calls, request, pc, res, repository, nextId, history>>
    /\ UNCHANGED processVars

\* what `await self.model.generate_content_async("Hello, respond with 'OK'")`
\* can do: return a reply, or raise
HealthReplies ==
    { [raised |-> FALSE, response |-> <<"O", "K">>],
      [raised |-> FALSE, response |-> <<"I", "t", " ", "i", "s", " ", "O", "K", ".">>],
      [raised |-> FALSE, response |-> <<"o", "k">>],
      [raised |-> TRUE,  response |-> <<>>] }

\* the requests the routes are sent, each with what its collaborators do
\* while it is served
RouteRequests ==
    { [route |-> "assistant-chat", agent |-> agent, llm |-> llm, drawing |-> drawing] :
        agent \in AgentOutcomes, llm \in AssistantReplies,
        drawing \in DrawingOutcomes }
    \cup
    { [route |-> "health", agent |-> agent, llm |-> llm] :
        agent \in AgentOutcomes, llm \in HealthReplies }

\* the value GeminiClient.health_check returns once awaited
gemini_health_check(llm) ==
    IF llm.raised THEN FALSE ELSE Contains(<<"O", "K">>, llm.response)

\* Python values of the health dict: a bool, or the coroutine object a call
\* of an `async def` returns until it is awaited
Bool(b) == [kind |-> "bool", value |-> b]
Coroutine(b) == [kind |-> "coroutine", value |-> b]

\* bool(v): an object without __bool__ and __len__ is true
truthy(v) == IF v.kind = "bool" THEN v.value ELSE TRUE

\* DiagramAgent.health_check, a plain `def`: the call of the client's
\* `async def health_check` is stored as it is
agent_health_check(llm) ==
    [llm_client |-> Coroutine(gemini_health_check(llm)),
     diagram_tools |-> Bool(TRUE)]

\* the `except Exception` branch of the route
Unhealthy == [status |-> "unhealthy", components |-> [error |-> Bool(FALSE)]]

\* the route health_check on the dict the agent returned;
\* HealthResponse(components: Dict[str, bool]) raises for a value that is no bool
health_check(health_status) ==
    LET all_healthy == truthy(health_status.llm_client)
                       /\ truthy(health_status.diagram_tools)
        status == IF all_healthy THEN "healthy" ELSE "degraded"
    IN  IF health_status.llm_client.kind = "bool"
           /\ health_status.diagram_tools.kind = "bool"
        THEN [status |-> status, components |-> health_status]
        ELSE Unhealthy

HealthCheck ==
    /\ pc = "routes"
    /\ request.route = "health"
    /\ reply' = [op |-> "health_check",
                 health |-> IF request.agent = "made"
                            THEN health_check(agent_health_check(request.llm))
                            ELSE Unhealthy]
    /\ UNCHANGED <<diagram, last, calls, request, pc, res, repository, nextId, history>>
    /\ UNCHANGED processVars

\* the routes with an agent pool set, and one request
InitRoutes ==
    /\ diagram = EmptyDiagram
    /\ last = NoCall
    /\ calls = 0
    /\ request \in RouteRequests
    /\ pc = "routes"
    /\ res = NoResults
    /\ repository = EmptyRepository
    /\ nextId = 1
    /\ history = <<>>
    /\ reply = NoReply
    /\ InitProcess

NextRoutes == AssistantChat \/ HealthCheck

SpecRoutes == InitRoutes /\ [][NextRoutes]_vars

\* C17: GET /health answers `healthy` when every component check is true,
\* `degraded` when the LLM client's health check returns false while the call
\* itself completes, and `unhealthy` only when the probe itself fails.
C17_HealthStatus ==
    reply.op = "health_check" =>
        /\ (request.agent = "made" /\ gemini_health_check(request.llm))
              => reply.health.status = "healthy"
        /\ (request.agent = "made" /\ ~gemini_health_check(request.llm))
              => reply.health.status = "degraded"
        /\ reply.health.status = "unhealthy" => request.agent = "raises"

\* C20: POST /assistant-chat answers every result the agent produces with a
\* typed body and never with a server error: type `diagram` with an image URL
\* and the specification for a diagram, type `text` with the reply for text,
\* type `error` for an error.
C20_TypedBodyForEveryAgentResult ==
    (reply.op = "assistant_chat" /\ request.agent = "made") =>
        /\ reply.http.status_code = 200
        /\ reply.http.type = reply.agent.type
        /\ reply.agent.type = "diagram" =>
              /\ reply.http.image_url # <<>>
              /\ reply.http.specification = reply.agent.specification
        /\ reply.agent.type = "text" =>
              reply.http.response = reply.agent.response

(***************************************************************************)
(* presentation/controllers/diagram_controller.py: the /api/v1 endpoints.  *)
(***************************************************************************)
\* Depends(get_diagram_service): `Container()` makes a container of its own
\* for the request, and the repository of that container starts empty
get_diagram_service == EmptyRepository

\* the request body as FastAPI reads it: Field(..., min_length=1, max_length=100)
CreateDiagramRequest(body) ==
    IF Len(body.name) < 1 \/ Len(body.name) > NameMaxLength THEN Invalid
    ELSE Valid(body)

\* GenerateDiagramFromDescriptionRequest: Field(..., min_length=1)
GenerateDiagramFromDescriptionRequest(description) ==
    IF Len(description) < 1 THEN Invalid ELSE Valid(description)

\* GenerateDiagramCommand(description=): validate_description
GenerateDiagramCommand(description) ==
    IF Blank(description) THEN Invalid ELSE Valid(strip(description))

\* DiagramDetailsResponse(diagram_id=str(diagram.id), name=, nodes=, connections=)
DiagramDetailsResponse(d) ==
    [diagram_id |-> d.id, details |-> DiagramDetails(d)]

\* what an endpoint answers: the status code, the diagram_id of the body of a
\* creation and the DiagramDetailsResponse items of the body of a read
HttpReply(op, status_code, diagram_id, details) ==
    [op |-> op, status_code |-> status_code, diagram_id |-> diagram_id,
     details |-> details]

\* raise HTTPException(status_code=...), and FastAPI's answer to a body it
\* cannot read as the request model
CreateDiagramError(status_code) ==
    HttpReply("create_diagram", status_code, 0, <<>>)

GenerateDiagramError(status_code) ==
    HttpReply("generate_diagram_from_description", status_code, 0, <<>>)

\* a diagram that a creation answered with status 200
CreatedDiagram(d) == [diagram_id |-> d.id, diagram |-> d]

\* an endpoint has served req: http is its answer, repo the repository of
\* its container after it, created the diagrams it answered as created
Respond(req, http, repo, created) ==
    /\ request' = req
    /\ reply' = http
    /\ repository' = repo
    /\ history' = history \o created

\* entries of the `nodes` and `connections` lists of a request body
node_entry(id, type, label) ==
    [id |-> id, type |-> type, label |-> label, cluster |-> Missing]

connection_entry(source, target) ==
    [source |-> source, target |-> target, label |-> Missing]

ControllerNodeLists ==
    { <<node_entry(<<"a">>, <<"e">>, <<"x">>), node_entry(<<"b">>, <<"e">>, <<"x">>)>>,
      <<>>,
      <<node_entry(<<"a">>, <<"e">>, <<"x">>), node_entry(<<"a">>, <<"e">>, <<"x">>)>>,
      <<node_entry(<<"a">>, <<"e">>, <<"x">>), node_entry(Missing, <<"e">>, <<"x">>)>>,
      <<node_entry(<<"a">>, <<"e">>, <<"x">>), node_entry(<<"b">>, Missing, <<"x">>)>>,
      <<node_entry(<<"a">>, <<"e">>, <<"x">>), node_entry(<<"b">>, <<"e">>, Missing)>>,
      <<node_entry(<<"a">>, <<"e">>, <<"x">>), node_entry(<<"b">>, <<"e">>, <<" ">>)>>,
      <<node_entry(<<"a">>, <<"e">>, <<"x">>), node_entry(<<"b">>, <<>>, <<"x">>)>> }

ControllerConnectionLists ==
    { <<>>,
      <<connection_entry(<<"a">>, <<"b">>)>>,
      <<connection_entry(<<"a">>, <<"z">>)>>,
      <<connection_entry(Missing, <<"b">>)>> }

ControllerNames == { <<"X">>, <<" ">>, <<>> }

\* the bodies sent to POST /diagrams
ControllerBodies ==
    { [name |-> <<"X">>, nodes |-> ns, connections |-> cs] :
        ns \in ControllerNodeLists, cs \in ControllerConnectionLists }
    \cup
    { [name |-> n, nodes |-> <<node_entry(<<"a">>, <<"e">>, <<"x">>)>>,
       connections |-> <<>>] : n \in ControllerNames }

\* the descriptions sent to POST /diagrams/generate
ControllerDescriptions ==
    { <<"E", "C", "2", " ", "r", "d", "s">>, <<"d", "b">>, <<" ">>, <<>> }

\* the diagrams that creations answered with status 200, oldest first
Created == { history[i].diagram_id : i \in 1..Len(history) }

\* POST /diagrams: create_diagram
PostDiagrams ==
    /\ pc = "controller"
    /\ calls < MaxRequests
    /\ \E body \in ControllerBodies :
         \E repo \in {get_diagram_service},
            dto \in {CreateDiagramRequest(body)},
            command \in {CreateDiagramCommand(body.name, body.nodes, body.connections)} :
           LET req == [route |-> "POST /diagrams", body |-> body] IN
           IF ~dto.ok THEN Respond(req, CreateDiagramError(422), repo, <<>>)
           ELSE IF ~command.ok THEN Respond(req, CreateDiagramError(400), repo, <<>>)
           ELSE \E r \in {create_diagram(nextId, command.v)} :
                  IF r.status = "ValueError"
                  THEN Respond(req, CreateDiagramError(400), repo, <<>>)
                  ELSE IF r.status # "ok"
                  THEN Respond(req, CreateDiagramError(500), repo, <<>>)
                  ELSE Respond(req,
                               HttpReply("create_diagram", 200, r.diagram.id, <<>>),
                               save(repo, r.diagram), <<CreatedDiagram(r.diagram)>>)
    /\ nextId' = nextId + 1
    /\ calls' = calls + 1
    /\ UNCHANGED <<diagram, last, pc, res>>
    /\ UNCHANGED processVars

\* POST /diagrams/generate: generate_diagram_from_description; the save of the
\* container's InMemoryDiagramRepository does not raise
PostDiagramsGenerate ==
    /\ pc = "controller"
    /\ calls < MaxRequests
    /\ \E description \in ControllerDescriptions, rendering \in DrawingOutcomes :
         \E repo \in {get_diagram_service},
            dto \in {GenerateDiagramFromDescriptionRequest(description)},
            command \in {GenerateDiagramCommand(description)} :
           LET req == [route |-> "POST /diagrams/generate",
                       description |-> description] IN
           IF ~dto.ok THEN Respond(req, GenerateDiagramError(422), repo, <<>>)
           ELSE IF ~command.ok
           THEN Respond(req, GenerateDiagramError(400), repo, <<>>)
           ELSE \E r \in {generate_diagram_from_description(
                              nextId, repo, command.v,
                              [raised |-> FALSE, message |-> <<>>], rendering)} :
                  Respond(req,
                          HttpReply("generate_diagram_from_description", 200,
                                    r.response.diagram_id, <<>>),
                          r.repository,
                          IF r.response.success THEN <<CreatedDiagram(r.diagram)>>
                          ELSE <<>>)
    /\ nextId' = nextId + 1
    /\ calls' = calls + 1
    /\ UNCHANGED <<diagram, last, pc, res>>
    /\ UNCHANGED processVars

\* GET /diagrams/{diagram_id}: get_diagram_by_id; the path carries an id a
\* creation answered, or one none did
GetDiagram ==
    /\ pc = "controller"
    /\ calls < MaxRequests
    /\ \E diagram_id \in 1..nextId :
         \E repo \in {get_diagram_service} :
           \E stored \in {find_by_id(repo, diagram_id)} :
             LET req == [route |-> "GET /diagrams/{diagram_id}",
                         diagram_id |-> diagram_id] IN
             IF ~stored.found
             THEN Respond(req, HttpReply("get_diagram_by_id", 404, 0, <<>>),
                          repo, <<>>)
             ELSE Respond(req,
                          HttpReply("get_diagram_by_id", 200, diagram_id,
                                    <<DiagramDetailsResponse(stored.diagram)>>),
                          repo, <<>>)
    /\ calls' = calls + 1
    /\ UNCHANGED <<diagram, last, pc, res, nextId>>
    /\ UNCHANGED processVars

\* GET /diagrams without limit and offset: get_all_diagrams
GetDiagrams ==
    /\ pc = "controller"
    /\ calls < MaxRequests
    /\ \E repo \in {get_diagram_service} :
         \E diagrams \in {find_all(repo)} :
           Respond([route |-> "GET /diagrams"],
                   HttpReply("get_all_diagrams", 200, 0,
                             [i \in 1..Len(diagrams) |->
                                 DiagramDetailsResponse(diagrams[i])]),
                   repo, <<>>)
    /\ calls' = calls + 1
    /\ UNCHANGED <<diagram, last, pc, res, nextId>>
    /\ UNCHANGED processVars

\* the application started, before any request
InitController ==
    /\ diagram = EmptyDiagram
    /\ last = NoCall
    /\ calls = 0
    /\ request = NoRequest
    /\ pc = "controller"
    /\ res = NoResults
    /\ repository = EmptyRepository
    /\ nextId = 1
    /\ history = <<>>
    /\ reply = NoReply
    /\ InitProcess

NextController == PostDiagrams \/ PostDiagramsGenerate \/ GetDiagram \/ GetDiagrams

SpecController == InitController /\ [][NextController]_vars

\* a node or connection entry of the body lacks a required field
LacksRequiredField(body) ==
    \/ \E i \in 1..Len(body.nodes) :
          \/ body.nodes[i].id = Missing
          \/ body.nodes[i].type = Missing
          \/ body.nodes[i].label = Missing
    \/ \E i \in 1..Len(body.connections) :
          \/ body.connections[i].source = Missing
          \/ body.connections[i].target = Missing

\* a connection of the body names a node id that no node entry declares
HasDanglingConnection(body) ==
    \E i \in 1..Len(body.connections) :
        \/ /\ body.connections[i].source # Missing
           /\ body.connections[i].source \notin DeclaredIds(body.nodes)
        \/ /\ body.connections[i].target # Missing
           /\ body.connections[i].target \notin DeclaredIds(body.nodes)

\* a node entry of the body has an empty label or type
HasEmptyLabelOrType(body) ==
    \E i \in 1..Len(body.nodes) :
        \/ body.nodes[i].label # Missing /\ Blank(body.nodes[i].label)
        \/ body.nodes[i].type # Missing /\ Blank(body.nodes[i].type)

FailsValidation(body) ==
    \/ body.nodes = <<>>
    \/ SharedId(body.nodes)
    \/ HasDanglingConnection(body)
    \/ LacksRequiredField(body)
    \/ HasEmptyLabelOrType(body)

\* C18: POST /diagrams answers every specification that fails validation
\* (empty node list, duplicate node id, dangling connection, entry lacking a
\* required field, empty label or type) with status 400, and the repository
\* content after the request is the same as before it.
C18_InvalidSpecificationAnswered400 ==
    (reply.op = "create_diagram" /\ FailsValidation(request.body)) =>
        /\ reply.status_code = 400
        /\ repository = get_diagram_service

\* C19: a diagram created by a successful POST /diagrams or POST
\* /diagrams/generate is returned by every later GET /diagrams/{id} with the
\* returned diagram_id and appears in GET /diagrams; GET /diagrams/{id}
\* answers 404 only for ids that were never stored.
C19_CreatedDiagramIsReturned ==
    /\ (reply.op = "get_diagram_by_id" /\ request.diagram_id \in Created) =>
          /\ reply.status_code = 200
          /\ \E i \in 1..Len(history) :
                reply.details = <<DiagramDetailsResponse(history[i].diagram)>>
    /\ (reply.op = "get_diagram_by_id" /\ reply.status_code = 404) =>
          request.diagram_id \notin Created
    /\ reply.op = "get_all_diagrams" =>
          \A i \in 1..Len(history) :
             \E j \in 1..Len(reply.details) :
                reply.details[j] = DiagramDetailsResponse(history[i].diagram)

(***************************************************************************)
(* agents/diagram_agent.py: DiagramAgentPool.  Each execute_with_agent     *)
(* call is a task; position[t] is where the task is in the coroutine.      *)
(***************************************************************************)
MaxTasks == 3
MaxPoolSize == 2

Tasks == 1..MaxTasks

\* asyncio.Semaphore.acquire that takes no permit
acquire_without_permit(value) == value

\* asyncio.Semaphore.acquire once it returns: one permit less
acquire(value) == value - 1

\* asyncio.Semaphore.release
release(value) == value + 1

\* DiagramAgentPool(gemini_api_key, pool_size): asyncio.Semaphore(pool_size)
DiagramAgentPool(pool_size) ==
    [pool_size |-> pool_size, semaphore |-> pool_size,
     position |-> [t \in Tasks |-> "created"]]

At(t, position) == pool.position[t] = position

Goto(t, position, value) ==
    pool' = [pool EXCEPT !.position[t] = position, !.semaphore = value]

\* `pool.execute_with_agent(operation)` is called and reaches
\* `await self.semaphore.acquire()` of get_agent
ExecuteWithAgent(t) ==
    /\ pc = "pool"
    /\ At(t, "created")
    /\ Goto(t, "acquire", pool.semaphore)
    /\ UNCHANGED <<diagram, last, calls, request, pc, res, repository, nextId,
                   history, reply, environ, files>>
    /\ UNCHANGED frontVars

\* `await self.semaphore.acquire()` returns when a permit is free
SemaphoreAcquire(t) ==
    /\ pc = "pool"
    /\ At(t, "acquire")
    /\ pool.semaphore > 0
    /\ Goto(t, "construct", acquire(pool.semaphore))
    /\ UNCHANGED <<diagram, last, calls, request, pc, res, repository, nextId,
                   history, reply, environ, files>>
    /\ UNCHANGED frontVars

\* `agent = DiagramAgent(...)` of get_agent returns the agent, and the task
\* enters `try: return await operation(agent)`
AgentMade(t) ==
    /\ pc = "pool"
    /\ At(t, "construct")
    /\ Goto(t, "operation", pool.semaphore)
    /\ UNCHANGED <<diagram, last, calls, request, pc, res, repository, nextId,
                   history, reply, environ, files>>
    /\ UNCHANGED frontVars

\* `agent = DiagramAgent(...)` raises: the exception leaves get_agent and
\* execute_with_agent, whose `try` has not been entered
AgentRaises(t) ==
    /\ pc = "pool"
    /\ At(t, "construct")
    /\ Goto(t, "raised", pool.semaphore)
    /\ UNCHANGED <<diagram, last, calls, request, pc, res, repository, nextId,
                   history, reply, environ, files>>
    /\ UNCHANGED frontVars

\* the operation returns or raises; `finally: self.release_agent(agent)`
OperationEnds(t) ==
    /\ pc = "pool"
    /\ At(t, "operation")
    /\ \E outcome \in {"returned", "raised"} :
         Goto(t, outcome, release(pool.semaphore))
    /\ UNCHANGED <<diagram, last, calls, request, pc, res, repository, nextId,
                   history, reply, environ, files>>
    /\ UNCHANGED frontVars

\* a pool of any size, no call made yet
InitPool ==
    /\ diagram = EmptyDiagram
    /\ last = NoCall
    /\ calls = 0
    /\ request = NoRequest
    /\ pc = "pool"
    /\ res = NoResults
    /\ repository = EmptyRepository
    /\ nextId = 1
    /\ history = <<>>
    /\ reply = NoReply
    /\ pool \in { DiagramAgentPool(pool_size) : pool_size \in 1..MaxPoolSize }
    /\ environ = [IMAGES_DIR |-> None]
    /\ files = {}
    /\ InitFront

NextPool ==
    \E t \in Tasks :
        \/ ExecuteWithAgent(t)
        \/ SemaphoreAcquire(t)
        \/ AgentMade(t)
        \/ AgentRaises(t)
        \/ OperationEnds(t)

SpecPool == InitPool /\ [][NextPool]_vars

\* the tasks whose operation is running with an agent of the pool
Running == { t \in Tasks : At(t, "operation") }

\* C21: with a pool of size N and any number of concurrent execute_with_agent
\* calls, at most N operations are running with an agent at every moment.
C21_AtMostPoolSizeRunning ==
    pc = "pool" => Cardinality(Running) <= pool.pool_size

C21_Witness ==
    /\ pc = "pool"
    /\ Cardinality(Running) = pool.pool_size
    /\ \E t \in Tasks : At(t, "acquire")
    /\ \E t \in Tasks : At(t, "returned")

\* every call has ended
AllFinished == \A t \in Tasks : At(t, "returned") \/ At(t, "raised")

\* C27: every permit acquired by execute_with_agent is released on every
\* outcome (the operation returns, the operation raises, the making of the
\* DiagramAgent raises): after all calls have finished the number of free
\* permits equals pool_size, and no call waits at the semaphore while no
\* call holds a permit.
C27_PermitsReleased ==
    pc = "pool" =>
        /\ AllFinished => pool.semaphore = pool.pool_size
        /\ (\A t \in Tasks : ~At(t, "construct") /\ ~At(t, "operation")) =>
              pool.semaphore = pool.pool_size

\* the reply carries a JSON object that DiagramRequest accepts
CarriesSpecification(response) ==
    /\ HasSpan(response)
    /\ json_loads(Span(response)).ok
    /\ DiagramRequestOfJson(json_loads(Span(response)).value).ok

\* DiagramAgent.chat_with_assistant has returned
ChatReturned == reply.op = "assistant_chat" /\ request.agent = "made"

\* C22: DiagramAgent.chat_with_assistant never raises, for any LLM behaviour
\* (reply, malformed reply, exception): it returns a mapping whose type is
\* text, diagram or error, and the type is diagram only if the reply held
\* parseable JSON satisfying the request schema and the render returned a path.
C22_ChatReturnsTypedMapping ==
    ChatReturned =>
        /\ "type" \in reply.agent.keys
        /\ reply.agent.type \in {"text", "diagram", "error"}
        /\ reply.agent.type = "diagram" =>
              /\ ~request.llm.raised
              /\ CarriesSpecification(request.llm.response)
              /\ request.drawing = "drawn"
              /\ reply.agent.specification =
                    DiagramRequestOfJson(json_loads(Span(request.llm.response)).value).v

C22_Witness ==
    /\ ChatReturned
    /\ reply.agent.type = "diagram"
    /\ Len(reply.agent.specification.nodes) = 1
    /\ Len(request.llm.response) > Len(Span(request.llm.response))

\* C23: when the LLM answers with a free-text reply that carries no JSON
\* diagram specification, chat_with_assistant returns type text with response
\* equal to that reply, whatever words or brace characters the reply contains.
C23_FreeTextIsReturnedAsText ==
    (ChatReturned /\ ~request.llm.raised
        /\ ~CarriesSpecification(request.llm.response)) =>
        /\ reply.agent.type = "text"
        /\ reply.agent.response = request.llm.response

(***************************************************************************)
(* api/routes.py: /generate-diagram and /images/{filename}.  A file is the *)
(* pair of its directory and its name; files holds the files on disk.      *)
(***************************************************************************)
\* os.path.join(tempfile.gettempdir(), "diagram_service_images")
TempImagesDir == <<"/", "t", "m", "p", "/", "d", "i", "a", "g", "r", "a", "m", "_", "s", "e", "r", "v", "i", "c", "e", "_", "i", "m", "a", "g", "e", "s">>

\* DiagramTools.__init__: IMAGES_DIR when it is set and not empty
images_dir(env) ==
    IF env.IMAGES_DIR # None /\ env.IMAGES_DIR # <<>> THEN env.IMAGES_DIR
    ELSE TempImagesDir

\* get_image: the directory it looks in
get_image_dir(env) == TempImagesDir

\* os.path.join(directory, name), and Path(path).name
join(directory, name) == [dir |-> directory, name |-> name]

\* the values of IMAGES_DIR in os.environ
ImagesDirSettings ==
    { None, <<>>, <<"/", "d", "a", "t", "a", "/", "i", "m", "a", "g", "e", "s">>, TempImagesDir }

\* the replies of the two generate_diagram_specification calls
SpecificationReplies ==
    { <<"{", "\"", "n", "a", "m", "e", "\"", ":", "\"", "X", "\"", ",", "\"", "n", "o", "d", "e", "s", "\"", ":", "[", "]", ",", "\"", "c", "o", "n", "n", "e", "c", "t", "i", "o", "n", "s", "\"", ":", "[", "]", "}">>,
      <<"{", "\"", "n", "a", "m", "e", "\"", ":", "\"", "X", "\"", ",", "\"", "n", "o", "d", "e", "s", "\"", ":", "[", "{", "\"", "i", "d", "\"", ":", "\"", "a", "\"", ",", "\"", "t", "y", "p", "e", "\"", ":", "\"", "a", "w", "s", "_", "e", "c", "2", "\"", ",", "\"", "l", "a", "b", "e", "l", "\"", ":", "\"", "x", "\"", "}", "]", ",", "\"", "c", "o", "n", "n", "e", "c", "t", "i", "o", "n", "s", "\"", ":", "[", "]", "}">>,
      <<"{", "\"", "n", "a", "m", "e", "\"", ":", "\"", "X", "\"", ",", "\"", "n", "o", "d", "e", "s", "\"", ":", "[", "{", "\"", "i", "d", "\"", ":", "\"", "a", "\"", ",", "\"", "t", "y", "p", "e", "\"", ":", "\"", "b", "o", "g", "u", "s", "\"", ",", "\"", "l", "a", "b", "e", "l", "\"", ":", "\"", "x", "\"", "}", "]", ",", "\"", "c", "o", "n", "n", "e", "c", "t", "i", "o", "n", "s", "\"", ":", "[", "]", "}">>,
      <<"h", "i">> }

\* raise HTTPException(status_code=500, detail=f"Failed to generate diagram: ...")
\* message is str(e) of the exception caught
GenerateDiagramFailed(message) ==
    [op |-> "generate_diagram", status_code |-> 500, success |-> FALSE,
     image_url |-> 0, specification |-> EmptySpecification,
     rendered |-> EmptySpecification,
     detail |-> <<"F", "a", "i", "l", "e", "d", " ", "t", "o", " ", "g", "e", "n", "e", "r", "a", "t", "e", " ", "d", "i", "a", "g", "r", "a", "m", ":", " ">> \o message]

\* what POST /generate-diagram has answered and written; history holds the
\* answers so far
Generated(req, http, written) ==
    /\ request' = req
    /\ reply' = http
    /\ files' = files \cup written
    /\ history' = Append(history, http)

\* POST /generate-diagram: create_diagram_from_description with one agent,
\* then generate_diagram_specification again with another
GenerateDiagram ==
    /\ pc = "images"
    /\ calls < MaxRequests
    /\ \E first \in SpecificationReplies, second \in SpecificationReplies,
          drawing \in DrawingOutcomes :
         \E diagram_spec_ \in {gemini_generate_diagram_specification(first)},
            returned \in {gemini_generate_diagram_specification(second)} :
           LET req == [route |-> "POST /generate-diagram", first |-> first,
                       second |-> second, drawing |-> drawing]
               image_path == join(images_dir(environ), nextId)
           IN  IF diagram_spec_.raised
               THEN Generated(req, GenerateDiagramFailed(<<diagram_spec_.kind>>), {})
               ELSE \E image \in {tools_create_diagram(
                                      diagram_spec_.specification.nodes,
                                      diagram_spec_.specification.connections,
                                      <<>>, drawing)} :
                      IF image.raised
                      THEN Generated(req, GenerateDiagramFailed(image.message), {})
                      ELSE IF returned.raised
                      THEN Generated(req, GenerateDiagramFailed(<<returned.kind>>),
                                     {image_path})
                      ELSE Generated(req,
                                     [op |-> "generate_diagram", status_code |-> 200,
                                      success |-> TRUE,
                                      image_url |-> image_path.name,
                                      specification |-> returned.specification,
                                      rendered |-> diagram_spec_.specification,
                                      detail |-> <<>>],
                                     {image_path})
    /\ nextId' = nextId + 1
    /\ calls' = calls + 1
    /\ UNCHANGED <<diagram, last, pc, res, repository, pool, environ>>
    /\ UNCHANGED frontVars

\* GET /images/{filename}, for the name of an image made or of none
GetImage ==
    /\ pc = "images"
    /\ calls < MaxRequests
    /\ \E filename \in 1..nextId :
         /\ request' = [route |-> "GET /images/{filename}", filename |-> filename]
         /\ reply' = [op |-> "get_image", filename |-> filename,
                      status_code |-> IF join(get_image_dir(environ), filename) \in files
                                      THEN 200 ELSE 404]
    /\ calls' = calls + 1
    /\ UNCHANGED <<diagram, last, pc, res, repository, nextId, history, pool,
                   environ, files>>
    /\ UNCHANGED frontVars

\* the application started under any setting of IMAGES_DIR, no image made
InitImages ==
    /\ diagram = EmptyDiagram
    /\ last = NoCall
    /\ calls = 0
    /\ request = NoRequest
    /\ pc = "images"
    /\ res = NoResults
    /\ repository = EmptyRepository
    /\ nextId = 1
    /\ history = <<>>
    /\ reply = NoReply
    /\ pool = NoPool
    /\ environ \in { [IMAGES_DIR |-> d] : d \in ImagesDirSettings }
    /\ files = {}
    /\ InitFront

NextImages == GenerateDiagram \/ GetImage

SpecImages == InitImages /\ [][NextImages]_vars

\* the filenames of the image_url of the successful answers so far
ReturnedImages ==
    { history[i].image_url : i \in { k \in 1..Len(history) : history[k].success } }

\* C24: after a successful POST /generate-diagram, GET /images/{filename} for
\* the filename of the returned image_url serves the image, not 404, whether
\* IMAGES_DIR is set or unset.
C24_ReturnedImageIsServed ==
    (reply.op = "get_image" /\ request.filename \in ReturnedImages) =>
        reply.status_code = 200

\* C28: in a successful POST /generate-diagram response the returned
\* specification is the specification that was rendered into the image, also
\* when the LLM answers two calls with the same description differently.
C28_ReturnedSpecificationIsRendered ==
    (reply.op = "generate_diagram" /\ reply.success) =>
        reply.specification = reply.rendered

\* the answers so far that came from the `except Exception` of the handler
ServerErrors == { i \in 1..Len(history) : history[i].status_code = 500 }

\* C25: every unanticipated failure inside a request handler is answered with
\* a generic server error whose body does not depend on the exception: two
\* requests failing with different internal exception messages receive
\* identical 500 response bodies.
C25_ServerErrorBodiesIdentical ==
    pc = "images" =>
        \A i, j \in ServerErrors : history[i].detail = history[j].detail

(***************************************************************************)
(* The timestamps of one Diagram aggregate: created_at and updated_at are  *)
(* read from datetime.utcnow() when the Diagram is constructed and         *)
(* updated_at again by each mutation.  The clock never runs backwards.     *)
(***************************************************************************)
MaxClock == 3

\* a mutation that leaves updated_at as it was
touch_skipped(r, now) == r

\* the last statement of add_node and of add_connection, reached only when
\* nothing was raised: self.updated_at = datetime.utcnow()
touch(r, now) ==
    IF r.raised THEN r ELSE [r EXCEPT !.d.updated_at = now]

\* the clock moves on between two statements
Tick ==
    /\ pc \in {"created_at", "updated_at", "timestamps"}
    /\ utcnow < MaxClock
    /\ utcnow' = utcnow + 1
    /\ UNCHANGED <<diagram, last, calls, request, pc, res, repository, nextId,
                   history, reply, pool, environ, files, global_agent, sessions>>

\* Diagram(id=..., name=...): the default factory of created_at
DefaultCreatedAt ==
    /\ pc = "created_at"
    /\ diagram' = [diagram EXCEPT !.created_at = utcnow]
    /\ pc' = "updated_at"
    /\ UNCHANGED <<last, calls, request, res, repository, nextId, history,
                   reply, pool, environ, files, frontVars>>

\* Diagram(id=..., name=...): the default factory of updated_at, run second
DefaultUpdatedAt ==
    /\ pc = "updated_at"
    /\ diagram' = [diagram EXCEPT !.updated_at = utcnow]
    /\ pc' = "timestamps"
    /\ UNCHANGED <<last, calls, request, res, repository, nextId, history,
                   reply, pool, environ, files, frontVars>>

\* the call made last on the Diagram, with the Diagram before it and the
\* clock it read
DiagramCalled(op, r) ==
    [op |-> op, raised |-> r.raised, before |-> diagram, now |-> utcnow]

\* Diagram.add_node(node)
DiagramAddNode ==
    /\ pc = "timestamps"
    /\ calls < MaxCalls
    /\ \E node \in NodeEntities :
         \E r \in {touch(add_node(diagram, node), utcnow)} :
            /\ diagram' = r.d
            /\ reply' = DiagramCalled("add_node", r)
    /\ calls' = calls + 1
    /\ UNCHANGED <<last, request, pc, res, repository, nextId, history,
                   pool, environ, files, frontVars>>

\* Diagram.add_connection(connection)
DiagramAddConnection ==
    /\ pc = "timestamps"
    /\ calls < MaxCalls
    /\ \E connection \in ConnectionEntities :
         \E r \in {touch(add_connection(diagram, connection), utcnow)} :
            /\ diagram' = r.d
            /\ reply' = DiagramCalled("add_connection", r)
    /\ calls' = calls + 1
    /\ UNCHANGED <<last, request, pc, res, repository, nextId, history,
                   pool, environ, files, frontVars>>

\* a Diagram about to be constructed with no nodes, connections or clusters
InitTimestamps ==
    /\ diagram = [id |-> 1, name |-> <<"X">>, nodes |-> <<>>,
                  connections |-> <<>>, clusters |-> <<>>,
                  created_at |-> 0, updated_at |-> 0]
    /\ last = NoCall
    /\ calls = 0
    /\ request = NoRequest
    /\ pc = "created_at"
    /\ res = NoResults
    /\ repository = EmptyRepository
    /\ nextId = 2
    /\ history = <<>>
    /\ reply = NoReply
    /\ InitProcess

NextTimestamps ==
    \/ Tick
    \/ DefaultCreatedAt
    \/ DefaultUpdatedAt
    \/ DiagramAddNode
    \/ DiagramAddConnection

SpecTimestamps == InitTimestamps /\ [][NextTimestamps]_vars

\* C26: a successful add_node or add_connection sets updated_at to the clock
\* it read and keeps created_at; a call that raised left nodes, connections,
\* clusters, created_at and updated_at as they were; and a constructed
\* Diagram always has created_at <= updated_at
C26_TimestampsFollowMutations ==
    /\ pc = "timestamps" => diagram.created_at <= diagram.updated_at
    /\ reply.op \in {"add_node", "add_connection"} =>
         IF reply.raised
         THEN /\ diagram.nodes = reply.before.nodes
              /\ diagram.connections = reply.before.connections
              /\ diagram.clusters = reply.before.clusters
              /\ diagram.created_at = reply.before.created_at
              /\ diagram.updated_at = reply.before.updated_at
         ELSE /\ diagram.updated_at = reply.now
              /\ diagram.created_at = reply.before.created_at
              /\ diagram.clusters = reply.before.clusters

\* a call was refused after an earlier one had refreshed updated_at, and the
\* clock has moved on since
C26_Witness ==
    /\ reply.op = "add_connection"
    /\ reply.raised
    /\ Len(diagram.nodes) > 0
    /\ diagram.created_at < diagram.updated_at
    /\ diagram.updated_at < reply.now

(***************************************************************************)
(* The chat front end (chainlit_app.py): one module-level `agent` shared   *)
(* by the handlers of every chat session.  A handler runs without          *)
(* interruption up to its next await.                                      *)
(***************************************************************************)
MaxSessions == 3

Sessions == 1..MaxSessions

\* the agent a start handler has made
TheDiagramAgent == <<"DiagramAgent">>

\* what os.getenv("GEMINI_API_KEY") can give: unset, empty, a key
ApiKeySettings == {None, <<>>, <<"k">>}

\* a session before its start handler has run
NewSession == [state |-> "new", at |-> "idle"]

\* the outcome of the message handled last
Handled(s, outcome) ==
    [op |-> "main", session |-> s, ready |-> sessions[s].state = "ready",
     outcome |-> outcome]

\* start(): without a key it returns early; DiagramAgent(key) either is
\* assigned to the global agent or raises and leaves it as it was
Start(s) ==
    /\ pc = "chat"
    /\ sessions[s].state = "new"
    /\ IF environ.GEMINI_API_KEY \in {None, <<>>}
       THEN /\ sessions' = [sessions EXCEPT ![s].state = "unready"]
            /\ UNCHANGED global_agent
       ELSE \E made \in BOOLEAN :
              IF made
              THEN /\ global_agent' = TheDiagramAgent
                   /\ sessions' = [sessions EXCEPT ![s].state = "ready"]
              ELSE /\ sessions' = [sessions EXCEPT ![s].state = "unready"]
                   /\ UNCHANGED global_agent
    /\ UNCHANGED <<diagram, last, calls, request, pc, res, repository, nextId,
                   history, reply, pool, environ, files, utcnow>>

\* main(message) up to `await cl.Message("Thinking...").send()`: with no
\* agent it answers "Agent not initialized" and returns
MainChecks(s) ==
    /\ pc = "chat"
    /\ sessions[s].state \in {"ready", "unready"}
    /\ sessions[s].at = "idle"
    /\ IF global_agent = None
       THEN /\ reply' = Handled(s, "not_initialized")
            /\ UNCHANGED sessions
       ELSE /\ sessions' = [sessions EXCEPT ![s].at = "thinking"]
            /\ UNCHANGED reply
    /\ UNCHANGED <<diagram, last, calls, request, pc, res, repository, nextId,
                   history, pool, environ, files, utcnow, global_agent>>

\* main(message) after the await: agent.chat_with_assistant(...) on the
\* global agent as it is now; on None the AttributeError is caught and
\* answered as an unexpected error
MainProcesses(s) ==
    /\ pc = "chat"
    /\ sessions[s].state \in {"ready", "unready"}
    /\ sessions[s].at = "thinking"
    /\ reply' = Handled(s, IF global_agent = None THEN "unexpected_error"
                           ELSE "processed")
    /\ sessions' = [sessions EXCEPT ![s].at = "idle"]
    /\ UNCHANGED <<diagram, last, calls, request, pc, res, repository, nextId,
                   history, pool, environ, files, utcnow, global_agent>>

\* end(): agent = None
End(s) ==
    /\ pc = "chat"
    /\ sessions[s].state \in {"ready", "unready"}
    /\ global_agent' = None
    /\ sessions' = [sessions EXCEPT ![s] = [state |-> "ended", at |-> "idle"]]
    /\ UNCHANGED <<diagram, last, calls, request, pc, res, repository, nextId,
                   history, reply, pool, environ, files, utcnow>>

\* the module loaded: agent = None, no session started yet
InitChat ==
    /\ diagram = EmptyDiagram
    /\ last = NoCall
    /\ calls = 0
    /\ request = NoRequest
    /\ pc = "chat"
    /\ res = NoResults
    /\ repository = EmptyRepository
    /\ nextId = 1
    /\ history = <<>>
    /\ reply = NoReply
    /\ pool = NoPool
    /\ environ \in { [IMAGES_DIR |-> None, GEMINI_API_KEY |-> k] :
                       k \in ApiKeySettings }
    /\ files = {}
    /\ utcnow = 0
    /\ global_agent = None
    /\ sessions = [s \in Sessions |-> NewSession]

NextChat ==
    \E s \in Sessions :
        \/ Start(s)
        \/ MainChecks(s)
        \/ MainProcesses(s)
        \/ End(s)

SpecChat == InitChat /\ [][NextChat]_vars

\* C30: a message of a session whose start handler made the agent, handled
\* before that session ends, is processed by an agent; and while such a
\* session is live the global agent is initialised
C30_LiveSessionKeepsItsAgent ==
    pc = "chat" =>
        /\ (reply.op = "main" /\ reply.ready) => reply.outcome = "processed"
        /\ (\E s \in Sessions : sessions[s].state = "ready")
              => global_agent # None

====
